---- MODULE Spec2Model ----
(***************************************************************************)
(* Hash-based aggregation and equi-join core: HashTableCtx, HashTable and  *)
(* the two partitioned operators (PartitionedAggregationNode and           *)
(* PartitionedHashJoinNode).  The module holds one state machine per       *)
(* component; each has its own specification (SpecSeeds, SpecHT, SpecAgg,   *)
(* SpecJoin).  The variables of the components a specification does not    *)
(* exercise stay at their idle values.                                     *)
(***************************************************************************)
EXTENDS Integers, Sequences, FiniteSets, Bags, TLC

VARIABLES
    \* ---- HashTableCtx constructor (hash-table.cc:85-113)
    initial_seed,   \* the constructor argument, a 32-bit value as 4 bytes, low byte first
    seeds_,         \* HashTableCtx::seeds_, filled level by level
    \* ---- HashTableCtx and its ExprValuesCache
    stores_nulls_,  \* HashTableCtx::stores_nulls_
    finds_nulls_,   \* HashTableCtx::finds_nulls_, one flag per key expression
    cache,          \* current row of the ExprValuesCache: values, null flags, hash
    capacity_,      \* ExprValuesCache::capacity_
    scratch_row_,   \* HashTableCtx::scratch_row_ ("alloc" or "NULL")
    tracker_,       \* bytes the ExprValuesCache holds from the MemTracker
    ctx_closes,     \* number of HashTableCtx::Close calls made
    \* ---- HashTable
    ht_pc,          \* life cycle: "new", "ready", "failed" (Init failed), "closed"
    stores_duplicates_,
    quadratic_probing_,
    max_num_buckets_,
    num_buckets_,
    buckets_,       \* bucket array, indexed 0 .. num_buckets_ - 1 (<<>> when NULL)
    num_filled_buckets_,
    num_buckets_with_duplicates_,
    num_duplicate_nodes_,
    nodes_,         \* arena of DuplicateNodes; a node pointer is its index, 0 is NULL
    data_pages_,    \* number of data pages allocated
    node_remaining_current_page_,
    has_matches_,
    num_resizes_,
    block_mgr_mem,  \* bucket-array memory consumed from the block manager (in buckets)
    buckets_freed,  \* number of times free(buckets_) ran on the current array
    ht_closes,      \* number of HashTable::Close calls made
    tuple_stream_,  \* the rows the table's slots refer to (slot = index)
    last_op,        \* the last HashTable operation and its outcome
    \* ---- PartitionedAggregationNode
    agg_pc,         \* position: "idle", "new", "open", "streaming", "getnext",
                    \* "repartition", "eos", "error", "aborted", "closed";
                    \* "resize", "resized" in CheckAndResizeHashPartitions
    is_streaming_preagg_,
    agg_input,      \* the rows child(0) returns (a row is its grouping key)
    child_rows_read,        \* rows of child(0) consumed so far
    hash_partitions_,       \* the Fanout partitions being written (<<>> when cleared)
    aggregated_partitions_, \* list of resident partitions ready for output
    spilled_partitions_,    \* list of spilled partitions awaiting repartitioning
    output_partition_,      \* partition being returned, or NoPartition
    output_iterator_,       \* position of the output iterator in output_partition_
    repartition_pos,        \* rows of the input partition's two streams re-read so far
    agg_output,             \* rows returned by GetNext so far
    agg_status,             \* "OK" or the error returned
    num_spilled_partitions_,\* Partition::Spill calls made
    num_repartitions_,      \* spilled partitions repartitioned
    \* ---- PartitionedHashJoinNode
    join_pc,        \* position: "idle", "new", "build", "reserve", "probe",
                    \* "unmatched", "next", "prepare_null_aware", "null_aware",
                    \* "null_probe", "eos", "closed",
                    \* "error"
    state_,         \* PartitionedHashJoinNode::state_
    join_op_,
    build_input,    \* the join keys of the rows child(1) returns
    probe_input,    \* the join keys of the rows child(0) returns
    build_rows_read,            \* build rows ProcessBuildInput has read
    probe_rows_read,            \* probe rows read from the current probe source
    join_hash_partitions_,      \* hash_partitions_ of the join node
    join_spilled_partitions_,   \* spilled_partitions_ of the join node
    input_partition_,           \* the spilled partition being processed, or <<>>
    output_build_partitions_,   \* partitions whose unmatched build rows are due
    join_output,                \* bag of the rows returned by GetNext so far
    join_status,                \* "OK" or the error returned
    join_num_spilled_partitions_,  \* num_spilled_partitions_ of the join node
    join_num_repartitions_,        \* num_repartitions_ of the join node
    null_aware_partition_,      \* the partition of the NULL-key build rows, or <<>>
    null_probe_rows_,           \* the NULL-key probe rows kept for EvaluateNullProbe
    matched_null_probe_,        \* matched_null_probe_[i]: null_probe_rows_[i] has a match
    is_cancelled_,          \* RuntimeState::is_cancelled_, read by RETURN_IF_CANCELLED
    batches_since_cancel,   \* batches processed since is_cancelled_ was set
    num_resets,             \* Reset calls made
    destroyed_open,         \* Partition destructors run with is_closed false
    resize_i,               \* CheckAndResizeHashPartitions: its loop variable i
    resize_num_rows,        \* CheckAndResizeHashPartitions: its argument num_rows
    needs_finalize_,        \* PartitionedAggregationNode::needs_finalize_
    needs_serialize_,       \* PartitionedAggregationNode::needs_serialize_
    cleanups,               \* for each intermediate tuple <<level, key>>, the number of
                            \* Finalize or Serialize calls made on it
    append_idx,             \* AppendSpilledRow: the partition whose stream is its argument
    using_small_buffers,    \* AppendSpilledRow: stream->using_small_buffers()
    hash_tbl_iterator_,     \* PartitionedHashJoinNode::hash_tbl_iterator_: a position in
                            \* the build rows of the first of output_build_partitions_
    unmatched_at_probe_end, \* the build rows whose matched bit was not set by the probe
    unmatched_visits, \* for each build row, the times OutputUnmatchedBuild took it
    \* ---- PartitionedAggregationNode::ShouldExpandPreaggHashTables
    expand_pc,      \* "idle", "call" (arguments fixed), "returned"
    expand_args,    \* what the function reads: ht_mem, ht_rows, input_rows, num_rows_returned, estimated_input_cardinality
    should_expand,  \* its return value
    \* ---- Status of the fallible sub-steps
    sub_step_status, \* "OK", or the error a stream operation returned to Partition::Spill or MoveHashPartitions
    \* ---- The cached hash table pointers of the two operators
    hash_tbls_,      \* PartitionedAggregationNode::hash_tbls_[PARTITION_FANOUT]
    join_hash_tbls_, \* PartitionedHashJoinNode::hash_tbls_[PARTITION_FANOUT]
    \* ---- PartitionedAggregationNode::GetNextInternal and its flags
    eos_pc,          \* "idle", "getnext" (Open has returned OK), "error"
    grouping_expr_ctxs_empty,   \* grouping_expr_ctxs_.empty()
    limit_,          \* ExecNode::limit_, -1 for none
    num_rows_returned_,         \* ExecNode::num_rows_returned_
    singleton_output_tuple_returned_,
    child_eos_,
    partition_eos_,
    child_rows_left, \* rows child(0) has not yet given to a streaming pre-aggregation
    output_rows_left,           \* intermediate tuples of the partitions not yet visited by GetRowsFromPartition
    eos,             \* *eos as the last GetNext left it
    row_batch_num_rows,         \* rows the last GetNext added to its row batch
    get_next_calls,  \* GetNext calls made
    singleton_rows_returned,    \* rows GetSingletonOutput has added since Prepare or Reset
    \* ---- HashTableCtx: hashing and equality of rows with string keys
    hash_pc,         \* "idle", "new", "build" (build row hashed), "probe" (probe row hashed), "compared", "skipped"
    level_,          \* HashTableCtx::level_
    build_expr_types,  \* type of each key expression, "INT" or "STRING"
    ctx_stores_nulls,  \* stores_nulls_ of this context
    hash_build_row,  \* the build row: per key a value, the address of a string, or NullPtr
    hash_probe_row,  \* the probe row
    cur_expr_values_,       \* ExprValuesCache: the current row's value slots
    cur_expr_values_null_,  \* ExprValuesCache: the current row's null flags
    build_row_hash,  \* HashCurrentRow() of the build row
    probe_row_hash,  \* HashCurrentRow() of the probe row
    equals_result    \* Equals<true>(build row) against the cached probe row

seedVars == <<initial_seed, seeds_>>

ctxVars == <<stores_nulls_, finds_nulls_, cache, capacity_, scratch_row_, tracker_,
             ctx_closes>>

tableVars == <<ht_pc, stores_duplicates_, quadratic_probing_, max_num_buckets_,
               num_buckets_, buckets_, num_filled_buckets_,
               num_buckets_with_duplicates_, num_duplicate_nodes_, nodes_,
               data_pages_, node_remaining_current_page_, has_matches_,
               num_resizes_, block_mgr_mem, buckets_freed, ht_closes,
               tuple_stream_, last_op>>

htVars == <<ctxVars, tableVars>>

aggVars == <<agg_pc, is_streaming_preagg_, agg_input, child_rows_read,
             hash_partitions_, aggregated_partitions_, spilled_partitions_,
             output_partition_, output_iterator_, repartition_pos, agg_output,
             agg_status, num_spilled_partitions_, num_repartitions_>>

joinVars == <<join_pc, state_, join_op_, build_input, probe_input, build_rows_read,
              probe_rows_read, join_hash_partitions_, join_spilled_partitions_,
              input_partition_, output_build_partitions_, join_output, join_status,
              join_num_spilled_partitions_, join_num_repartitions_,
              null_aware_partition_, null_probe_rows_, matched_null_probe_>>

naajVars == <<null_aware_partition_, null_probe_rows_, matched_null_probe_>>

runtimeVars == <<is_cancelled_, batches_since_cancel, num_resets, destroyed_open>>

resizeVars == <<resize_i, resize_num_rows>>

cleanupVars == <<needs_finalize_, needs_serialize_, cleanups>>

appendVars == <<append_idx, using_small_buffers>>

\* The variables of the single-function components but the cleanup counts.
unmatchedVars == <<hash_tbl_iterator_, unmatched_at_probe_end, unmatched_visits>>

expandVars == <<expand_pc, expand_args, should_expand>>

statusVars == <<sub_step_status>>

eosVars == <<eos_pc, grouping_expr_ctxs_empty, limit_, num_rows_returned_, singleton_output_tuple_returned_, child_eos_, partition_eos_, child_rows_left, output_rows_left, eos, row_batch_num_rows, get_next_calls, singleton_rows_returned>>

varLenVars == <<hash_pc, level_, build_expr_types, ctx_stores_nulls, hash_build_row, hash_probe_row, cur_expr_values_, cur_expr_values_null_, build_row_hash, probe_row_hash, equals_result>>

hashTblsVars == <<hash_tbls_, join_hash_tbls_>>

auxVarsExceptCleanups == <<resizeVars, appendVars, unmatchedVars, expandVars, statusVars, eosVars, varLenVars, needs_finalize_, needs_serialize_>>

auxVarsExceptHashTbls == <<resizeVars, cleanupVars, appendVars, unmatchedVars, expandVars, statusVars, eosVars, varLenVars>>

auxVars == <<auxVarsExceptHashTbls, hashTblsVars>>

opVars == <<aggVars, joinVars, runtimeVars, auxVars>>

\* ------------------------------------------------------------------------
\* 32-bit unsigned arithmetic.  A uint32_t is a tuple of four bytes, low byte
\* first, so that products stay within the range of the checker's integers.
\* ------------------------------------------------------------------------
ToU32(n) ==
    <<n % 256, (n \div 256) % 256, (n \div 65536) % 256, (n \div 16777216) % 256>>

\* a * b modulo 2^32 (schoolbook multiplication of the byte limbs, high carries dropped)
MulU32(a, b) ==
    LET c1 == a[1] * b[1]
        c2 == a[1] * b[2] + a[2] * b[1] + (c1 \div 256)
        c3 == a[1] * b[3] + a[2] * b[2] + a[3] * b[1] + (c2 \div 256)
        c4 == a[1] * b[4] + a[2] * b[3] + a[3] * b[2] + a[4] * b[1] + (c3 \div 256)
    IN  <<c1 % 256, c2 % 256, c3 % 256, c4 % 256>>

\* SEED_PRIMES[], indexed from level 0 (TLA+ sequences start at 1).
SEED_PRIMES ==
    <<1, 1431655781, 1183186591, 622729787, 472882027, 338294347, 275604541,
      41161739, 29999999, 27475109, 611603, 16313357, 11380003, 21261403,
      33393119, 101, 71043403>>

SeedPrime(level) == ToU32(SEED_PRIMES[level + 1])

\* max_levels as passed by both operators; the constructor requires it to be
\* below the number of SEED_PRIMES entries.
MaxLevels == Len(SEED_PRIMES) - 1

ZeroU32 == <<0, 0, 0, 0>>

\* The initial seeds the constructor is tried on: every non-zero 32-bit value
\* whose bytes are drawn from SeedBytes.
SeedBytes == {0, 1, 3, 128}

InitialSeeds == {s \in [1..4 -> SeedBytes] : s # ZeroU32}

\* seeds_[i] = seeds_[i - 1] * SEED_PRIMES[i]
NextSeed(seeds) == MulU32(seeds[Len(seeds)], SeedPrime(Len(seeds)))

\* seeds_[0] = initial_seed
CtxSetInitialSeed ==
    /\ seeds_ = <<>>
    /\ seeds_' = <<initial_seed>>
    /\ UNCHANGED <<initial_seed, htVars, opVars>>

\* one iteration of the loop  for (i = 1; i <= max_levels; ++i)
CtxComputeSeed ==
    /\ seeds_ # <<>>
    /\ Len(seeds_) <= MaxLevels
    /\ seeds_' = Append(seeds_, NextSeed(seeds_))
    /\ UNCHANGED <<initial_seed, htVars, opVars>>

\* ------------------------------------------------------------------------
\* HashTableCtx: key evaluation, hashing, equality (hash-table.cc:141-229)
\* ------------------------------------------------------------------------

\* Number of key expressions (build_expr_ctxs_.size()).
NumExprs == 2

\* The first key takes the values 0 .. MaxVal, the other keys the value 0;
\* ExprContext::GetValue returns NULL for a NULL key.
MaxVal == 1

NullPtr == -1

Vals(i) == IF i = 1 THEN 0 .. MaxVal ELSE {0}

\* NULL keys in one row at most.
MaxNulls == 1

\* The tuple rows offered to the table: every combination of values and NULLs
\* with at most MaxNulls NULL keys.
Rows == {r \in [1..NumExprs -> (0 .. MaxVal) \cup {NullPtr}] :
            /\ \A i \in 1..NumExprs : r[i] \in Vals(i) \cup {NullPtr}
            /\ Cardinality({i \in 1..NumExprs : r[i] = NullPtr}) <= MaxNulls}

\* static int64_t NULL_VALUE[]: the non-zero pattern (HashUtil::FNV_SEED repeated)
\* written to the values buffer for a NULL key.  The pattern is also the bytes
\* of an ordinary key value; scaled to the key domain, that value is 1.
NULL_VALUE == 1

\* Width of the hash values of the model; a bucket index is hash & (num_buckets - 1).
HashBits == 3

HashSpace == 2 ^ HashBits

\* The cache row after ExprValuesCache::Init (memset 0).
EmptyCache ==
    [values |-> [i \in 1..NumExprs |-> 0], nulls |-> [i \in 1..NumExprs |-> FALSE],
     hash |-> 0]

\* HashTableCtx::EvalRow from expression i on: returns has_null and the cache row.
\* With stores_nulls_ = false it returns at the first NULL, leaving the rest of
\* the cache row as it was.
RECURSIVE EvalRowFrom(_, _, _, _, _)
EvalRowFrom(row, c, i, has_null, stores_nulls) ==
    IF i > NumExprs THEN [has_null |-> has_null, cache |-> c]
    ELSE IF row[i] = NullPtr
         THEN IF ~stores_nulls
              THEN [has_null |-> TRUE, cache |-> c]
              ELSE EvalRowFrom(row,
                       [c EXCEPT !.nulls[i] = TRUE, !.values[i] = NULL_VALUE],
                       i + 1, TRUE, stores_nulls)
         ELSE EvalRowFrom(row,
                  [c EXCEPT !.nulls[i] = FALSE, !.values[i] = row[i]],
                  i + 1, has_null, stores_nulls)

\* A plausible slip in EvalRow: the early return on NULL is dropped (the row is
\* written with the sentinel) and has_null is not reported.
EvalRowNoEarlyReturn(row, c, stores_nulls) ==
    [has_null |-> FALSE, cache |-> EvalRowFrom(row, c, 1, FALSE, TRUE).cache]

EvalRow(row, c, stores_nulls) == EvalRowFrom(row, c, 1, FALSE, stores_nulls)

\* HashUtil::Hash / HashUtil::MurmurHash2_64 (external): a seeded hash of the
\* packed values, folded to HashBits bits.  It is not injective: distinct keys
\* may collide.
RECURSIVE HashFrom(_, _, _)
HashFrom(values, i, hash) ==
    IF i > NumExprs THEN hash
    ELSE HashFrom(values, i + 1, (hash * 3 + values[i] + i) % HashSpace)

\* Seed of level 0 as seen by the model's narrow hash.
Level0Seed == 1

\* HashTableCtx::HashCurrentRow, fixed-length keys (var_result_offset() == -1):
\* hashes expr_values_bytes_per_row() bytes of the current row with seeds_[level_].
HashCurrentRow(c) == HashFrom(c.values, 1, Level0Seed)

\* HashTableCtx::Equals<FORCE_NULL_EQUALITY>(build_row) from expression i on,
\* comparing the build row's values with the cached row.
RECURSIVE EqualsFrom(_, _, _, _, _)
EqualsFrom(build_row, c, force, finds_nulls, i) ==
    IF i > NumExprs THEN TRUE
    ELSE IF build_row[i] = NullPtr
         THEN IF ~(force \/ finds_nulls[i]) THEN FALSE
              ELSE IF ~c.nulls[i] THEN FALSE
              ELSE EqualsFrom(build_row, c, force, finds_nulls, i + 1)
         ELSE IF c.nulls[i] THEN FALSE
              ELSE IF c.values[i] # build_row[i] THEN FALSE
              ELSE EqualsFrom(build_row, c, force, finds_nulls, i + 1)

\* A plausible slip in Equals: NULL = NULL is accepted for every key, whatever
\* finds_nulls says (FORCE_NULL_EQUALITY taken as true).
EqualsForcingNullEquality(build_row, c, force, finds_nulls) ==
    EqualsFrom(build_row, c, TRUE, finds_nulls, 1)

\* A plausible slip in Equals: the null flag of the cached row is not consulted,
\* so a NULL build value is accepted whenever NULLs may match.
EqualsIgnoringCachedNull(build_row, c, force, finds_nulls) ==
    \A i \in 1..NumExprs :
        IF build_row[i] = NullPtr THEN force \/ finds_nulls[i]
        ELSE c.values[i] = build_row[i]

Equals(build_row, c, force, finds_nulls) ==
    EqualsFrom(build_row, c, force, finds_nulls, 1)

\* The function HashTableCtx::CodegenEquals generates, from expression i on.
\* row_is_null is the cached null flag only when force_null_equality or
\* finds_nulls_[i] holds, and false otherwise; a non-NULL build value is
\* checked against row_is_null only when stores_nulls_ holds, and then
\* compared with the cached value.
RECURSIVE CodegenEqualsFrom(_, _, _, _, _, _)
CodegenEqualsFrom(build_row, c, force, finds_nulls, stores_nulls, i) ==
    IF i > NumExprs THEN TRUE
    ELSE LET row_is_null == IF force \/ finds_nulls[i] THEN c.nulls[i] ELSE FALSE
         IN IF build_row[i] = NullPtr
            THEN IF row_is_null
                 THEN CodegenEqualsFrom(build_row, c, force, finds_nulls, stores_nulls, i + 1)
                 ELSE FALSE
            ELSE IF stores_nulls /\ row_is_null THEN FALSE
                 ELSE IF c.values[i] # build_row[i] THEN FALSE
                 ELSE CodegenEqualsFrom(build_row, c, force, finds_nulls, stores_nulls, i + 1)

CodegenEquals(build_row, c, force, finds_nulls, stores_nulls) ==
    CodegenEqualsFrom(build_row, c, force, finds_nulls, stores_nulls, 1)

\* HashTableCtx::EvalAndHashBuild (hash-table.inline.h): evaluates the build row
\* and hashes it; false (row skipped) when the row has a NULL the table does
\* not store.
EvalAndHashBuild(row, c, stores_nulls) ==
    LET e == EvalRow(row, c, stores_nulls)
    IN  IF ~stores_nulls /\ e.has_null
        THEN [ok |-> FALSE, cache |-> e.cache]
        ELSE [ok |-> TRUE, cache |-> [e.cache EXCEPT !.hash = HashCurrentRow(e.cache)]]

\* HashTableCtx::EvalAndHashProbe (hash-table.inline.h): false when the probe
\* row has a NULL and the table cannot match NULLs.
EvalAndHashProbe(row, c, stores_nulls, finds_nulls) ==
    LET e == EvalRow(row, c, stores_nulls)
        finds_some_nulls == \E i \in 1..NumExprs : finds_nulls[i]
    IN  IF e.has_null /\ ~(stores_nulls /\ finds_some_nulls)
        THEN [ok |-> FALSE, cache |-> e.cache]
        ELSE [ok |-> TRUE, cache |-> [e.cache EXCEPT !.hash = HashCurrentRow(e.cache)]]

\* ExprValuesCache::MemUsage with Bitmap::MemUsage (one 64-bit word per 64 rows).
ExprValuesBytesPerRow == NumExprs * 8

MemUsage(capacity) ==
    ExprValuesBytesPerRow * capacity + NumExprs * capacity + 4 * capacity
        + 8 * ((capacity + 63) \div 64)

\* ------------------------------------------------------------------------
\* HashTable (hash-table.cc:341-481, probing and insertion as specified in
\* section 4.3 of the design)
\* ------------------------------------------------------------------------

\* const double HashTable::MAX_FILL_FACTOR = 0.75f, as the fraction 3/4.
MaxFillNum == 3
MaxFillDen == 4

\* A wrong fill factor (1.0): the table may fill up completely.
ExceedsFillFactorOne(filled, num_buckets) == filled > num_buckets

\* filled > num_buckets * MAX_FILL_FACTOR, the test of CheckAndResize's loop.
ExceedsFillFactor(filled, num_buckets) ==
    filled * MaxFillDen > num_buckets * MaxFillNum

\* The bucket array size passed to the constructor is a power of two between
\* 2^InitialBucketsLog and 2^MaxBucketsLog.
InitialBucketsLog == 1

\* The max_num_buckets both operators pass is a power of two, 2^MaxBucketsLog
\* (1 << (32 - NUM_PARTITIONING_BITS) in the code).
MaxBucketsLog == 2

\* Rows inserted into one table at most.
MaxRows == 3

\* Largest buckets_to_fill passed to CheckAndResize.
MaxBucketsToFill == 2

\* Nodes per data page (page_size / sizeof(DuplicateNode)).
NodesPerPage == 2

BUCKET_NOT_FOUND == -1

\* A bucket after memset(buckets_, 0, ...).
EmptyBucket ==
    [filled |-> FALSE, matched |-> FALSE, hasDuplicates |-> FALSE, hash |-> 0,
     htdata |-> 0, duplicates |-> 0]

NewBuckets(n) == [i \in 0..(n - 1) |-> EmptyBucket]

\* HashTable::GetRow(bucket): the row of the bucket's entry, or of the head of
\* its duplicate chain.
GetRow(bucket, nodes, stream) ==
    IF bucket.hasDuplicates THEN stream[nodes[bucket.duplicates].htdata]
    ELSE stream[bucket.htdata]

\* HashTable::Probe<FORCE_NULL_EQUALITY> from bucket idx after `step` steps.
\* use_ctx = FALSE is Probe with ht_ctx == NULL (no key comparison).
\* Linear probing steps by one, quadratic probing by 1, 2, 3, ... (triangular
\* offsets); after num_buckets steps the probe fails.
RECURSIVE ProbeFrom(_, _, _, _, _, _, _, _, _, _, _)
ProbeFrom(buckets, n, use_ctx, c, force, finds_nulls, quadratic, nodes, stream, idx, step) ==
    IF ~buckets[idx].filled THEN [idx |-> idx, found |-> FALSE]
    ELSE IF /\ buckets[idx].hash = c.hash
            /\ use_ctx
            /\ Equals(GetRow(buckets[idx], nodes, stream), c, force, finds_nulls)
         THEN [idx |-> idx, found |-> TRUE]
         ELSE IF step + 1 < n
              THEN ProbeFrom(buckets, n, use_ctx, c, force, finds_nulls, quadratic,
                       nodes, stream,
                       IF quadratic THEN (idx + step + 1) % n ELSE (idx + 1) % n,
                       step + 1)
              ELSE [idx |-> BUCKET_NOT_FOUND, found |-> FALSE]

Probe(buckets, n, use_ctx, c, force, finds_nulls, quadratic, nodes, stream) ==
    ProbeFrom(buckets, n, use_ctx, c, force, finds_nulls, quadratic, nodes, stream,
              c.hash % n, 0)

\* ExprValuesCache capacity after a successful Init.
CacheCapacity == 1

\* What no HashTable operation changes: the configuration of context and table.
htConfig == <<stores_nulls_, finds_nulls_, capacity_, scratch_row_,
              stores_duplicates_, quadratic_probing_, max_num_buckets_>>

\* A failed Init that leaves num_buckets_ as the constructor set it.
NumBucketsKeptByFailedInit(num_buckets) == num_buckets

\* HashTable::Init when ConsumeMemory is refused: num_buckets_ = 0.
NumBucketsAfterFailedInit(num_buckets) == 0

\* bool HashTable::Init()
HtInit ==
    /\ ht_pc = "new"
    /\ capacity_ > 0
    /\ ctx_closes = 0
    /\ \E granted \in BOOLEAN :   \* the outcome of BufferedBlockMgr::ConsumeMemory
        /\ IF granted
           THEN /\ buckets_' = NewBuckets(num_buckets_)
                /\ block_mgr_mem' = block_mgr_mem + num_buckets_
                /\ ht_pc' = "ready"
                /\ UNCHANGED num_buckets_
           ELSE /\ num_buckets_' = NumBucketsAfterFailedInit(num_buckets_)
                /\ ht_pc' = "failed"
                /\ UNCHANGED <<buckets_, block_mgr_mem>>
        /\ last_op' = [op |-> "Init", ok |-> granted]
    /\ UNCHANGED <<seedVars, opVars, htConfig, cache, tracker_, ctx_closes,
                   num_filled_buckets_, num_buckets_with_duplicates_,
                   num_duplicate_nodes_, nodes_, data_pages_,
                   node_remaining_current_page_, has_matches_, num_resizes_,
                   buckets_freed, ht_closes, tuple_stream_>>

\* HashTable::ResizeBuckets: the new bucket array.  Walks the filled buckets in
\* index order from bucket i on and copies each to the slot that Probe<true>
\* with ht_ctx == NULL finds for its cached hash.
RECURSIVE CopyBuckets(_, _, _, _, _)
CopyBuckets(old, old_n, new, new_n, i) ==
    IF i >= old_n THEN new
    ELSE IF ~old[i].filled THEN CopyBuckets(old, old_n, new, new_n, i + 1)
         ELSE LET p == Probe(new, new_n, FALSE, [hash |-> old[i].hash], TRUE,
                             finds_nulls_, quadratic_probing_, nodes_, tuple_stream_)
              IN  CopyBuckets(old, old_n, [new EXCEPT ![p.idx] = old[i]], new_n, i + 1)

\* A plausible slip in the copy loop: the destination is taken with the mask of
\* the old array size.
ResizedBucketsOldMask(old, old_n, new_n) ==
    [i \in 0..(new_n - 1) |-> IF i < old_n THEN old[i] ELSE EmptyBucket]

\* A plausible slip in the copy loop: the bucket is copied field by field and
\* the matched flag is left out.
ResizedBucketsClearingMatched(old, old_n, new_n) ==
    LET copied == CopyBuckets(old, old_n, NewBuckets(new_n), new_n, 0)
    IN  [i \in 0..(new_n - 1) |-> [copied[i] EXCEPT !.matched = FALSE]]

ResizedBuckets(old, old_n, new_n) ==
    CopyBuckets(old, old_n, NewBuckets(new_n), new_n, 0)

\* Resizes attempted on one table at most (num_resizes_ counts failed ones too).
MaxResizes == 1

\* The shift CheckAndResize's while loop ends with.
RECURSIVE ResizeShift(_, _, _, _)
ResizeShift(filled, buckets_to_fill, num_buckets, shift) ==
    IF ExceedsFillFactor(filled + buckets_to_fill, num_buckets * (2 ^ shift))
    THEN ResizeShift(filled, buckets_to_fill, num_buckets, shift + 1)
    ELSE shift

\* bool HashTable::CheckAndResize(buckets_to_fill, ht_ctx), with the call of
\* ResizeBuckets(num_buckets_ << shift, ht_ctx) it makes when shift > 0.
\* A table that may grow beyond any size.
ExceedsMaxNumBucketsNever(num_buckets, max_num_buckets) == FALSE

\* HashTable::ResizeBuckets: the requested size is refused when a maximum is
\* set (max_num_buckets_ != -1) and the size is above it.
ExceedsMaxNumBuckets(num_buckets, max_num_buckets) ==
    max_num_buckets # -1 /\ num_buckets > max_num_buckets

HtCheckAndResize ==
    /\ ht_pc = "ready"
    /\ ctx_closes = 0
    /\ num_resizes_ < MaxResizes
    /\ \E buckets_to_fill \in 0..MaxBucketsToFill, granted \in BOOLEAN :
        LET shift == ResizeShift(num_filled_buckets_, buckets_to_fill, num_buckets_, 0)
            num_buckets == num_buckets_ * (2 ^ shift)
        IN  IF shift = 0
            THEN /\ granted
                 /\ last_op' = [op |-> "CheckAndResize", ok |-> TRUE, resized |-> FALSE]
                 /\ UNCHANGED <<num_resizes_, block_mgr_mem, buckets_, num_buckets_>>
            ELSE IF ExceedsMaxNumBuckets(num_buckets, max_num_buckets_)
            THEN /\ granted
                 /\ last_op' = [op |-> "CheckAndResize", ok |-> FALSE, resized |-> FALSE]
                 /\ UNCHANGED <<num_resizes_, block_mgr_mem, buckets_, num_buckets_>>
            ELSE /\ num_resizes_' = num_resizes_ + 1
                 /\ last_op' = [op |-> "CheckAndResize", ok |-> granted,
                                 resized |-> granted]
                 /\ IF granted
                    THEN /\ buckets_' = ResizedBuckets(buckets_, num_buckets_, num_buckets)
                         /\ num_buckets_' = num_buckets
                         /\ block_mgr_mem' = block_mgr_mem + num_buckets - num_buckets_
                    ELSE UNCHANGED <<block_mgr_mem, buckets_, num_buckets_>>
    /\ UNCHANGED <<seedVars, opVars, htConfig, cache, tracker_, ctx_closes, ht_pc,
                   num_filled_buckets_, num_buckets_with_duplicates_,
                   num_duplicate_nodes_, nodes_, data_pages_,
                   node_remaining_current_page_, has_matches_,
                   buckets_freed, ht_closes, tuple_stream_>>

\* Nodes a duplicate insert into `bucket` takes from the arena: one for the new
\* row, and one more for the bucket's own entry when the bucket is promoted.
NodesNeeded(bucket) == IF bucket.hasDuplicates THEN 1 ELSE 2

\* HashTable::InsertDuplicateNode: promotes the bucket to a chain if it is not
\* one yet (its entry and matched flag move to a node), then pushes the new
\* node at the head of the chain.
NodesAfterInsert(nodes, bucket, slot) ==
    IF bucket.hasDuplicates
    THEN Append(nodes, [next |-> bucket.duplicates, matched |-> FALSE, htdata |-> slot])
    ELSE nodes \o <<[next |-> 0, matched |-> bucket.matched, htdata |-> bucket.htdata],
                    [next |-> Len(nodes) + 1, matched |-> FALSE, htdata |-> slot]>>

\* bool HashTable::Insert(ht_ctx, row) for a build row that the caller evaluated
\* with EvalAndHashBuild; the row is appended to the stream when it is inserted.
HtInsert ==
    /\ ht_pc = "ready"
    /\ ctx_closes = 0
    /\ Len(tuple_stream_) < MaxRows
    /\ \E row \in Rows, page_granted \in BOOLEAN :
        LET e == EvalAndHashBuild(row, cache, stores_nulls_)
            p == Probe(buckets_, num_buckets_, stores_duplicates_, e.cache, TRUE,
                       finds_nulls_, quadratic_probing_, nodes_, tuple_stream_)
            slot == Len(tuple_stream_) + 1
            failed == /\ last_op' = [op |-> "Insert", ok |-> FALSE, row |-> row]
                      /\ UNCHANGED <<buckets_, num_filled_buckets_,
                                     num_buckets_with_duplicates_,
                                     num_duplicate_nodes_, nodes_, data_pages_,
                                     node_remaining_current_page_, tuple_stream_>>
        IN  /\ cache' = e.cache
            /\ IF ~e.ok \/ p.idx = BUCKET_NOT_FOUND
               THEN page_granted /\ failed
               ELSE IF ~p.found
               THEN \* PrepareBucketForInsert
                    /\ page_granted
                    /\ IF ExceedsFillFactor(num_filled_buckets_ + 1, num_buckets_)
                       THEN failed
                       ELSE /\ buckets_' = [buckets_ EXCEPT ![p.idx] =
                                              [filled |-> TRUE, matched |-> FALSE,
                                               hasDuplicates |-> FALSE,
                                               hash |-> e.cache.hash, htdata |-> slot,
                                               duplicates |-> 0]]
                            /\ num_filled_buckets_' = num_filled_buckets_ + 1
                            /\ tuple_stream_' = Append(tuple_stream_, row)
                            /\ last_op' = [op |-> "Insert", ok |-> TRUE, row |-> row]
                            /\ UNCHANGED <<num_buckets_with_duplicates_,
                                           num_duplicate_nodes_, nodes_, data_pages_,
                                           node_remaining_current_page_>>
               ELSE \* InsertDuplicateNode, growing the node arena when it is short
                    LET need == NodesNeeded(buckets_[p.idx])
                        grow == node_remaining_current_page_ < need
                    IN  IF grow /\ ~page_granted
                        THEN failed
                        ELSE /\ page_granted
                             /\ data_pages_' = data_pages_ + (IF grow THEN 1 ELSE 0)
                             /\ node_remaining_current_page_' =
                                  (IF grow THEN NodesPerPage
                                   ELSE node_remaining_current_page_) - need
                             /\ nodes_' = NodesAfterInsert(nodes_, buckets_[p.idx], slot)
                             /\ buckets_' = [buckets_ EXCEPT ![p.idx] =
                                               [@ EXCEPT !.hasDuplicates = TRUE,
                                                         !.duplicates = Len(nodes_')]]
                             /\ num_duplicate_nodes_' = num_duplicate_nodes_ + need
                             /\ num_buckets_with_duplicates_' =
                                  num_buckets_with_duplicates_
                                    + (IF buckets_[p.idx].hasDuplicates THEN 0 ELSE 1)
                             /\ tuple_stream_' = Append(tuple_stream_, row)
                             /\ last_op' = [op |-> "Insert", ok |-> TRUE, row |-> row]
                             /\ UNCHANGED num_filled_buckets_
    /\ UNCHANGED <<seedVars, opVars, htConfig, tracker_, ctx_closes, ht_pc, num_buckets_,
                   has_matches_, num_resizes_, block_mgr_mem, buckets_freed,
                   ht_closes>>

\* HashTable::FindProbeRow(ht_ctx) for a probe row evaluated with
\* EvalAndHashProbe: Probe<false> with the context; the end iterator when the
\* row is skipped, the probe fails or no equal key is found.
FindProbeRow(row, c) ==
    LET e == EvalAndHashProbe(row, c, stores_nulls_, finds_nulls_)
        p == Probe(buckets_, num_buckets_, TRUE, e.cache, FALSE, finds_nulls_,
                   quadratic_probing_, nodes_, tuple_stream_)
    IN  [cache |-> e.cache,
         idx |-> IF e.ok /\ p.found THEN p.idx ELSE BUCKET_NOT_FOUND]

\* Entries marked as matched in one table at most.
MaxMatched == 1

\* The entries (bucket entries and duplicate nodes) whose matched flag is set.
NumMatched ==
    Cardinality({i \in DOMAIN buckets_ :
                    buckets_[i].filled /\ ~buckets_[i].hasDuplicates /\ buckets_[i].matched})
      + Cardinality({n \in DOMAIN nodes_ : nodes_[n].matched})

\* A probe of the table; on a match the caller may mark the entry the iterator
\* points at as matched (Iterator::SetMatched).
HtFindProbeRow ==
    /\ ht_pc = "ready"
    /\ ctx_closes = 0
    /\ \E row \in Rows, set_matched \in BOOLEAN :
        LET f == FindProbeRow(row, cache)
        IN  /\ set_matched => stores_duplicates_ /\ NumMatched < MaxMatched
            /\ cache' = f.cache
            /\ last_op' = [op |-> "FindProbeRow", ok |-> f.idx # BUCKET_NOT_FOUND,
                           row |-> row]
            /\ IF f.idx = BUCKET_NOT_FOUND
               THEN ~set_matched /\ UNCHANGED <<buckets_, nodes_, has_matches_>>
               ELSE IF ~set_matched
               THEN UNCHANGED <<buckets_, nodes_, has_matches_>>
               ELSE /\ has_matches_' = TRUE
                    /\ IF buckets_[f.idx].hasDuplicates
                       THEN /\ nodes_' = [nodes_ EXCEPT
                                            ![buckets_[f.idx].duplicates].matched = TRUE]
                            /\ UNCHANGED buckets_
                       ELSE /\ buckets_' = [buckets_ EXCEPT ![f.idx].matched = TRUE]
                            /\ UNCHANGED nodes_
    /\ UNCHANGED <<seedVars, opVars, htConfig, tracker_, ctx_closes, ht_pc, num_buckets_,
                   num_filled_buckets_, num_buckets_with_duplicates_,
                   num_duplicate_nodes_, data_pages_, node_remaining_current_page_,
                   num_resizes_, block_mgr_mem, buckets_freed, ht_closes,
                   tuple_stream_>>

\* Iterator::NextUnmatched along a duplicate chain: the first node from n on
\* whose matched flag is not set, 0 at the end of the chain.
RECURSIVE FirstUnmatchedNode(_, _)
FirstUnmatchedNode(nodes, n) ==
    IF n = 0 THEN 0
    ELSE IF ~nodes[n].matched THEN n
    ELSE FirstUnmatchedNode(nodes, nodes[n].next)

\* The bucket holds an entry that the unmatched iteration stops at.
BucketHasUnmatched(buckets, nodes, i) ==
    /\ buckets[i].filled
    /\ IF buckets[i].hasDuplicates
       THEN FirstUnmatchedNode(nodes, buckets[i].duplicates) # 0
       ELSE ~buckets[i].matched

\* One iteration of the loop of OutputUnmatchedBuild: the iterator stands at
\* the first unmatched entry in bucket order, the row is output, the entry is
\* marked with SetMatched and the iterator moves on with NextUnmatched.
HtOutputUnmatchedBuild ==
    /\ ht_pc = "ready"
    /\ ctx_closes = 0
    /\ stores_duplicates_
    /\ NumMatched < MaxMatched
    /\ \E i \in DOMAIN buckets_ :
        /\ BucketHasUnmatched(buckets_, nodes_, i)
        /\ \A j \in DOMAIN buckets_ : j < i => ~BucketHasUnmatched(buckets_, nodes_, j)
        /\ IF buckets_[i].hasDuplicates
           THEN /\ nodes_' = [nodes_ EXCEPT
                                ![FirstUnmatchedNode(nodes_, buckets_[i].duplicates)].matched = TRUE]
                /\ UNCHANGED buckets_
           ELSE /\ buckets_' = [buckets_ EXCEPT ![i].matched = TRUE]
                /\ UNCHANGED nodes_
    /\ has_matches_' = TRUE
    /\ last_op' = [op |-> "OutputUnmatchedBuild", ok |-> TRUE]
    /\ UNCHANGED <<seedVars, opVars, htConfig, cache, tracker_, ctx_closes, ht_pc,
                   num_buckets_, num_filled_buckets_, num_buckets_with_duplicates_,
                   num_duplicate_nodes_, data_pages_, node_remaining_current_page_,
                   num_resizes_, block_mgr_mem, buckets_freed, ht_closes,
                   tuple_stream_>>

\* Close calls made on one object at most.
MaxCloses == 2

\* void HashTable::Close(): deletes the data pages, frees buckets_ when it is
\* not NULL (the pointer is left as it is) and releases
\* num_buckets_ * sizeof(Bucket) to the block manager.
HtClose ==
    /\ ht_pc \in {"ready", "failed", "closed"}
    /\ ht_closes < MaxCloses
    /\ data_pages_' = 0
    /\ buckets_freed' = buckets_freed + (IF buckets_ # <<>> THEN 1 ELSE 0)
    /\ block_mgr_mem' = block_mgr_mem - num_buckets_
    /\ ht_pc' = "closed"
    /\ ht_closes' = ht_closes + 1
    /\ last_op' = [op |-> "Close", ok |-> TRUE]
    /\ UNCHANGED <<seedVars, opVars, ctxVars, stores_duplicates_, quadratic_probing_,
                   max_num_buckets_, num_buckets_, buckets_, num_filled_buckets_,
                   num_buckets_with_duplicates_, num_duplicate_nodes_, nodes_,
                   node_remaining_current_page_, has_matches_, num_resizes_,
                   tuple_stream_>>

\* void HashTableCtx::Close(): frees scratch_row_ and sets it to NULL, then
\* ExprValuesCache::Close(tracker), which returns at once when capacity_ == 0
\* and otherwise releases MemUsage(capacity_, ...) to the tracker.
CtxClose ==
    /\ ht_pc \in {"new", "failed", "closed"}
    /\ ctx_closes < MaxCloses
    /\ scratch_row_' = "NULL"
    /\ tracker_' = IF capacity_ = 0 THEN tracker_ ELSE tracker_ - MemUsage(capacity_)
    /\ ctx_closes' = ctx_closes + 1
    /\ UNCHANGED <<seedVars, opVars, stores_nulls_, finds_nulls_, cache, capacity_, tableVars>>

\* The elements of a list.
Range(s) == {s[i] : i \in 1..Len(s)}

\* ------------------------------------------------------------------------
\* PartitionedAggregationNode (partitioned-aggregation-node.cc).  A row is its
\* grouping key and the aggregate is COUNT(*): a raw row adds 1 to its group
\* (Update), an intermediate tuple adds the count it carries (Merge).  A
\* partition is a record; its aggregated_row_stream holds the intermediate
\* tuples, which for a resident partition are exactly the entries of its hash
\* table.  No conjuncts and no limit.
\* ------------------------------------------------------------------------

Fanout == 3              \* PARTITION_FANOUT, scaled down
MaxResets == 1

MaxPartitionDepth == 2   \* MAX_PARTITION_DEPTH, scaled down
MaxKey == 3              \* grouping keys are 0 .. MaxKey
MaxInput == 3            \* longest child input

Keys == 0..MaxKey

AggInputs == UNION {[1..n -> Keys] : n \in 0..MaxInput}

\* Partition::Partition: a new partition of the given level.  hash_tbl is
\* TRUE while the partition owns a hash table (FALSE is hash_tbl == NULL).
NewPartition(level) == [level |-> level, is_closed |-> FALSE, hash_tbl |-> TRUE, aggregated_row_stream |-> <<>>, unaggregated_row_stream |-> <<>>]

\* Partition::is_spilled()
IsSpilled(p) == ~p.hash_tbl

\* A pointer to a hash table is the index of the partition of hash_partitions_
\* that owns the table; NullHashTbl is NULL, and InputPartitionHashTbl the
\* table of the join's input_partition_.
NullHashTbl == 0

InputPartitionHashTbl == Fanout + 1

\* memset(hash_tbls_, 0, ...): every entry NULL.
NoHashTbls == [i \in 1..Fanout |-> NullHashTbl]

\* The loops hash_tbls_[i] = hash_partitions_[i]->hash_tbl of
\* CreateHashPartitions and BuildHashTables: the partition's own table, NULL
\* when it has none.
HashTblsOf(parts) == [i \in 1..Fanout |-> IF i <= Len(parts) /\ parts[i].hash_tbl THEN i ELSE NullHashTbl]

HashTblsAfterSpillStale(tbls, partition_idx) == tbls

\* SpillPartition: hash_tbls_[partition_idx] = NULL.
HashTblsAfterSpill(tbls, partition_idx) == [tbls EXCEPT ![partition_idx] = NullHashTbl]

\* Partition::Spill: the hash table is closed and reset; the intermediate
\* tuples stay in the (now unpinned) aggregated stream.
PartitionSpill(p) == [p EXCEPT !.hash_tbl = FALSE]

NumRows(p) == Len(p.aggregated_row_stream) + Len(p.unaggregated_row_stream)

\* The partition of a key at a level: the top bits of the hash seeded for
\* that level; here digit 'level' of the key in base Fanout.
PartitionIdx(key, level) == ((key \div (Fanout ^ level)) % Fanout) + 1

\* The lowest index of a set of partition indexes.
FirstIdx(S) == CHOOSE i \in S : \A j \in S : i <= j

\* CreateHashPartitions spilling the partition whose InitHashTable fails even
\* in a streaming pre-aggregation.
CreateHashPartitionsSpillingPreagg(level, init_failed, streaming) ==
    IF level >= MaxPartitionDepth
    THEN [status |-> "PARTITIONED_AGG_MAX_PARTITION_DEPTH", partitions |-> <<>>, spills |-> 0]
    ELSE [status |-> "OK", partitions |-> [i \in 1..Fanout |-> IF i \in init_failed THEN PartitionSpill(NewPartition(level)) ELSE NewPartition(level)], spills |-> Cardinality(init_failed)]

\* CreateHashPartitions without the check of the level against
\* MAX_PARTITION_DEPTH.
CreateHashPartitionsAnyLevel(level, init_failed, streaming) ==
    IF streaming /\ init_failed # {}
    THEN [status |-> "MEM_LIMIT_EXCEEDED", partitions |-> [i \in 1..Fanout |-> [NewPartition(level) EXCEPT !.hash_tbl = i < FirstIdx(init_failed)]], spills |-> 0]
    ELSE [status |-> "OK", partitions |-> [i \in 1..Fanout |-> IF i \in init_failed THEN PartitionSpill(NewPartition(level)) ELSE NewPartition(level)], spills |-> Cardinality(init_failed)]

\* CreateHashPartitions leaving a partition whose InitHashTable fails without
\* a hash table and without calling Spill on it.
CreateHashPartitionsNotSpilling(level, init_failed, streaming) ==
    IF level >= MaxPartitionDepth
    THEN [status |-> "PARTITIONED_AGG_MAX_PARTITION_DEPTH", partitions |-> <<>>, spills |-> 0]
    ELSE IF streaming /\ init_failed # {}
    THEN [status |-> "MEM_LIMIT_EXCEEDED", partitions |-> [i \in 1..Fanout |-> [NewPartition(level) EXCEPT !.hash_tbl = i < FirstIdx(init_failed)]], spills |-> 0]
    ELSE [status |-> "OK", partitions |-> [i \in 1..Fanout |-> [NewPartition(level) EXCEPT !.hash_tbl = i \notin init_failed]], spills |-> 0]

\* CreateHashPartitions(level); init_failed is the set of partitions whose
\* InitHashTable fails.
CreateHashPartitions(level, init_failed, streaming) ==
    IF level >= MaxPartitionDepth
    THEN [status |-> "PARTITIONED_AGG_MAX_PARTITION_DEPTH", partitions |-> <<>>, spills |-> 0]
    ELSE IF streaming /\ init_failed # {}
    THEN [status |-> "MEM_LIMIT_EXCEEDED", partitions |-> [i \in 1..Fanout |-> [NewPartition(level) EXCEPT !.hash_tbl = i < FirstIdx(init_failed)]], spills |-> 0]
    ELSE [status |-> "OK", partitions |-> [i \in 1..Fanout |-> IF i \in init_failed THEN PartitionSpill(NewPartition(level)) ELSE NewPartition(level)], spills |-> Cardinality(init_failed)]

\* Memory SpillPartition would free: the pinned aggregated stream plus the
\* hash table's buckets (never zero).
PartitionMem(p) == Len(p.aggregated_row_stream) + 1

\* SpillPartition's choice: the first partition of the largest memory among
\* those neither closed nor spilled; 0 when there is none (-1 in the code).
SpillPartitionIdx(parts) ==
    LET cand == {i \in 1..Len(parts) : ~parts[i].is_closed /\ ~IsSpilled(parts[i])}
    IN IF cand = {} THEN 0
       ELSE CHOOSE i \in cand : \A j \in cand :
                \/ PartitionMem(parts[j]) < PartitionMem(parts[i])
                \/ PartitionMem(parts[j]) = PartitionMem(parts[i]) /\ i <= j

\* Position of the key's entry in a hash table, 0 when absent.
FindKey(stream, key) ==
    IF \E i \in 1..Len(stream) : stream[i].key = key
    THEN CHOOSE i \in 1..Len(stream) : stream[i].key = key
    ELSE 0

\* ProcessRow<AGGREGATED_ROWS>: a row goes to the partition its hash selects.
\* Spilled partition: AppendSpilledRow to the stream of its kind.  Resident:
\* update the group found, or add an intermediate tuple and update that.
ProcessRow(parts, key, cnt, aggregated) ==
    LET idx == PartitionIdx(key, parts[1].level)
        p == parts[idx]
        at == FindKey(p.aggregated_row_stream, key)
    IN IF IsSpilled(p)
       THEN IF aggregated
            THEN [parts EXCEPT ![idx].aggregated_row_stream = Append(@, [key |-> key, cnt |-> cnt])]
            ELSE [parts EXCEPT ![idx].unaggregated_row_stream = Append(@, key)]
       ELSE IF at # 0
            THEN [parts EXCEPT ![idx].aggregated_row_stream[at].cnt = @ + cnt]
            ELSE [parts EXCEPT ![idx].aggregated_row_stream = Append(@, [key |-> key, cnt |-> cnt])]

\* LargestSpilledPartition skipping the spilled partitions instead of the
\* resident ones.
LargestSpilledPartitionOfResident(parts) ==
    LET S == {NumRows(parts[i]) : i \in {j \in 1..Len(parts) : ~parts[j].is_closed /\ ~IsSpilled(parts[j])}}
    IN IF S = {} THEN 0 ELSE CHOOSE m \in S : \A n \in S : n <= m

\* LargestSpilledPartition finding no spilled partition.
LargestSpilledPartitionNone(parts) == 0

\* LargestSpilledPartition
LargestSpilledPartition(parts) ==
    LET S == {NumRows(parts[i]) : i \in {j \in 1..Len(parts) : ~parts[j].is_closed /\ IsSpilled(parts[j])}}
    IN IF S = {} THEN 0 ELSE CHOOSE m \in S : \A n \in S : n <= m

RECURSIVE MoveHashPartitionsFrom(_, _, _, _)
MoveHashPartitionsFrom(parts, i, spilled, aggregated) ==
    IF i > Len(parts)
    THEN [spilled_partitions |-> spilled, aggregated_partitions |-> aggregated]
    ELSE IF NumRows(parts[i]) = 0
    THEN MoveHashPartitionsFrom(parts, i + 1, spilled, aggregated)
    ELSE IF IsSpilled(parts[i])
    THEN MoveHashPartitionsFrom(parts, i + 1, <<parts[i]>> \o spilled, aggregated)
    ELSE MoveHashPartitionsFrom(parts, i + 1, spilled, Append(aggregated, parts[i]))

\* MoveHashPartitions with every spilled partition closed as if it were empty.
MoveHashPartitionsClosingSpilled(parts, spilled, aggregated) ==
    [spilled_partitions |-> spilled, aggregated_partitions |-> aggregated \o SelectSeq(parts, LAMBDA p : NumRows(p) > 0 /\ ~IsSpilled(p))]

\* MoveHashPartitions sending the partitions without rows on with the others
\* instead of closing them.
MoveHashPartitionsKeepingEmpty(parts, spilled, aggregated) ==
    [spilled_partitions |-> SelectSeq(parts, LAMBDA p : IsSpilled(p)) \o spilled, aggregated_partitions |-> aggregated \o SelectSeq(parts, LAMBDA p : ~IsSpilled(p))]

\* MoveHashPartitions pushing the spilled partitions to the back of
\* spilled_partitions_ instead of the front.
MoveHashPartitionsAppendingSpilled(parts, spilled, aggregated) ==
    [spilled_partitions |-> spilled \o SelectSeq(parts, LAMBDA p : NumRows(p) > 0 /\ IsSpilled(p)), aggregated_partitions |-> aggregated \o SelectSeq(parts, LAMBDA p : NumRows(p) > 0 /\ ~IsSpilled(p))]

\* MoveHashPartitions: an empty partition is closed, a spilled one is pushed
\* to the front of spilled_partitions_, a resident one to the back of
\* aggregated_partitions_.
MoveHashPartitions(parts, spilled, aggregated) ==
    MoveHashPartitionsFrom(parts, 1, spilled, aggregated)

\* The batches processed since the cancellation was signalled, after n more.
BatchesSinceCancel(n) == IF is_cancelled_ THEN batches_since_cancel + n ELSE batches_since_cancel

\* An intermediate tuple is identified by the level of its partition and its
\* grouping key: a key has one partition per level and one tuple there.
TupleIds == (0..(MaxPartitionDepth - 1)) \X Keys

NoCleanups == [t \in TupleIds |-> 0]

\* The tuples of partition p from position `from` of its hash table on.
TuplesFrom(p, from) == {<<p.level, p.aggregated_row_stream[i].key>> : i \in from..Len(p.aggregated_row_stream)}

\* The tuples held in the hash tables of the partitions of a list.
HashTblTuples(parts) == UNION {TuplesFrom(parts[i], 1) : i \in {j \in 1..Len(parts) : parts[j].hash_tbl /\ ~parts[j].is_closed}}

\* CleanupHashTbl(agg_fn_ctxs, it): nothing when the functions need neither;
\* else Finalize (needs_finalize_) or Serialize on every tuple from `it` on.
CleanupHashTbl(c, tuples) ==
    IF ~needs_finalize_ /\ ~needs_serialize_ THEN c
    ELSE [t \in DOMAIN c |-> IF t \in tuples THEN c[t] + 1 ELSE c[t]]

\* GetOutputTuple: Finalize when needs_finalize_, else Serialize, which does
\* nothing when no function has a Serialize.
GetOutputTuple(c, tuple) ==
    IF needs_finalize_ \/ needs_serialize_ THEN [c EXCEPT ![tuple] = @ + 1] ELSE c

\* Partition::SerializeStreamForSpilling: when needs_serialize_, Serialize on
\* every tuple of the hash table; if the serialize stream refuses a row, the
\* tuples after it go through CleanupHashTbl instead.
SerializeStreamForSpilling(c, p) ==
    IF needs_serialize_ /\ Len(p.aggregated_row_stream) # 0
    THEN [t \in DOMAIN c |-> IF t \in TuplesFrom(p, 1) THEN c[t] + 1 ELSE c[t]]
    ELSE c

\* ClosePartitions: Partition::Close(true) on the partitions of
\* hash_partitions_, aggregated_partitions_ and spilled_partitions_ runs
\* CleanupHashTbl from the beginning of every hash table still there.
ClosePartitionsTuples ==
    HashTblTuples(hash_partitions_) \cup HashTblTuples(aggregated_partitions_) \cup HashTblTuples(spilled_partitions_)

\* Prepare: CreateHashPartitions(0); then Open, which for a streaming
\* pre-aggregation returns at once and otherwise starts reading child(0).
AggPrepare ==
    /\ agg_pc = "new"
    /\ \E init_failed \in SUBSET (1..Fanout) :
         LET r == CreateHashPartitions(0, init_failed, is_streaming_preagg_)
         IN /\ agg_status' = r.status
            /\ hash_partitions_' = r.partitions
            /\ hash_tbls_' = IF r.partitions = <<>> THEN hash_tbls_ ELSE HashTblsOf(r.partitions)
            /\ num_spilled_partitions_' = num_spilled_partitions_ + r.spills
            /\ agg_pc' = IF r.status # "OK" THEN "error"
                         ELSE IF is_streaming_preagg_ THEN "streaming" ELSE "open"
    /\ UNCHANGED <<seedVars, htVars, auxVarsExceptHashTbls, join_hash_tbls_, joinVars, runtimeVars, is_streaming_preagg_, agg_input, child_rows_read,
                   aggregated_partitions_, spilled_partitions_, output_partition_,
                   output_iterator_, repartition_pos, agg_output, num_repartitions_>>

\* Open's loop body: ProcessBatch<false> on the next row of child(0).
AggProcessBatch ==
    /\ ~is_cancelled_
    /\ agg_pc = "open"
    /\ child_rows_read < Len(agg_input)
    /\ hash_partitions_' = ProcessRow(hash_partitions_, agg_input[child_rows_read + 1], 1, FALSE)
    /\ child_rows_read' = child_rows_read + 1
    /\ UNCHANGED <<seedVars, htVars, auxVars, joinVars, runtimeVars, agg_pc, is_streaming_preagg_, agg_input,
                   aggregated_partitions_, spilled_partitions_, output_partition_,
                   output_iterator_, repartition_pos, agg_output, agg_status,
                   num_spilled_partitions_, num_repartitions_>>

\* Rows of the spilled partition being repartitioned that are still unread.
RepartitionRowsLeft ==
    /\ agg_pc = "repartition"
    /\ repartition_pos < NumRows(Head(spilled_partitions_))

\* An allocation of the batch in progress fails and SpillPartition runs
\* (from CheckAndResizeHashPartitions, AddIntermediateTuple, AppendSpilledRow
\* or ProcessStream): the largest resident partition is spilled, or the
\* memory limit is too low when none is left.  Partition::Spill begins with
\* SerializeStreamForSpilling; when the serialize stream refuses a row
\* (failed_to_add) the hash table and the aggregated stream are closed and the
\* call fails.
AggSpillPartition ==
    /\ ~is_streaming_preagg_
    /\ \/ agg_pc = "open" /\ child_rows_read < Len(agg_input)
       \/ RepartitionRowsLeft
    /\ LET idx == SpillPartitionIdx(hash_partitions_)
       IN IF idx = 0
          THEN /\ agg_status' = "MEM_LIMIT_TOO_LOW"
               /\ agg_pc' = "error"
               /\ UNCHANGED <<hash_partitions_, hash_tbls_, num_spilled_partitions_, cleanups>>
          ELSE \E failed_to_add \in (IF needs_serialize_ /\ Len(hash_partitions_[idx].aggregated_row_stream) # 0 THEN BOOLEAN ELSE {FALSE}) :
                 /\ hash_tbls_' = HashTblsAfterSpill(hash_tbls_, idx)
                 /\ cleanups' = SerializeStreamForSpilling(cleanups, hash_partitions_[idx])
                 /\ IF failed_to_add
                    THEN /\ hash_partitions_' = [hash_partitions_ EXCEPT ![idx] = [PartitionSpill(@) EXCEPT !.aggregated_row_stream = <<>>]]
                         /\ agg_status' = "MEM_LIMIT_TOO_LOW"
                         /\ agg_pc' = "error"
                         /\ UNCHANGED num_spilled_partitions_
                    ELSE /\ hash_partitions_' = [hash_partitions_ EXCEPT ![idx] = PartitionSpill(@)]
                         /\ num_spilled_partitions_' = num_spilled_partitions_ + 1
                         /\ UNCHANGED <<agg_status, agg_pc>>
    /\ UNCHANGED <<seedVars, htVars, auxVarsExceptCleanups, join_hash_tbls_, joinVars, runtimeVars, is_streaming_preagg_, agg_input, child_rows_read,
                   aggregated_partitions_, spilled_partitions_, output_partition_,
                   output_iterator_, repartition_pos, agg_output, num_repartitions_>>

\* The end of Open: child(0) is at eos, MoveHashPartitions.
AggOpenEos ==
    /\ agg_pc = "open"
    /\ child_rows_read = 0 => ~is_cancelled_
    /\ child_rows_read = Len(agg_input)
    /\ LET m == MoveHashPartitions(hash_partitions_, spilled_partitions_, aggregated_partitions_)
       IN /\ spilled_partitions_' = m.spilled_partitions
          /\ aggregated_partitions_' = m.aggregated_partitions
    /\ hash_partitions_' = <<>>
    /\ agg_pc' = "getnext"
    /\ UNCHANGED <<seedVars, htVars, auxVars, joinVars, runtimeVars, is_streaming_preagg_, agg_input, child_rows_read,
                   output_partition_, output_iterator_, repartition_pos, agg_output,
                   agg_status, num_spilled_partitions_, num_repartitions_>>

\* output_iterator_.AtEnd()
OutputAtEnd ==
    \/ output_partition_ = <<>>
    \/ output_iterator_ > Len(output_partition_[1].aggregated_row_stream)

\* GetNext after child eos: GetRowsFromPartition into a batch of one row.
\* When the iterator is at its end the output partition is closed and
\* NextPartition picks the next aggregated partition, or starts to
\* repartition the first spilled one with CreateHashPartitions(level + 1).
AggGetRowsFromPartition ==
    /\ ~is_cancelled_
    /\ agg_pc = "getnext"
    /\ IF ~OutputAtEnd
       THEN /\ agg_output' = Append(agg_output, output_partition_[1].aggregated_row_stream[output_iterator_])
            /\ cleanups' = GetOutputTuple(cleanups, <<output_partition_[1].level, output_partition_[1].aggregated_row_stream[output_iterator_].key>>)
            /\ output_iterator_' = output_iterator_ + 1
            /\ UNCHANGED <<agg_pc, agg_status, hash_partitions_, hash_tbls_, aggregated_partitions_,
                           output_partition_, repartition_pos, num_spilled_partitions_,
                           num_repartitions_>>
       ELSE IF aggregated_partitions_ = <<>> /\ spilled_partitions_ = <<>>
       THEN /\ agg_pc' = "eos"
            /\ output_partition_' = <<>>
            /\ UNCHANGED <<agg_status, hash_partitions_, hash_tbls_, aggregated_partitions_,
                           output_iterator_, repartition_pos, agg_output,
                           num_spilled_partitions_, num_repartitions_, cleanups>>
       ELSE IF aggregated_partitions_ # <<>>
       THEN /\ output_partition_' = <<Head(aggregated_partitions_)>>
            /\ aggregated_partitions_' = Tail(aggregated_partitions_)
            /\ agg_output' = Append(agg_output, Head(aggregated_partitions_).aggregated_row_stream[1])
            /\ cleanups' = GetOutputTuple(cleanups, <<Head(aggregated_partitions_).level, Head(aggregated_partitions_).aggregated_row_stream[1].key>>)
            /\ output_iterator_' = 2
            /\ UNCHANGED <<agg_pc, agg_status, hash_partitions_, hash_tbls_, repartition_pos,
                           num_spilled_partitions_, num_repartitions_>>
       ELSE \E init_failed \in SUBSET (1..Fanout) :
              LET r == CreateHashPartitions(Head(spilled_partitions_).level + 1, init_failed, is_streaming_preagg_)
              IN /\ output_partition_' = <<>>
                 /\ agg_status' = r.status
                 /\ hash_partitions_' = r.partitions
                 /\ hash_tbls_' = IF r.partitions = <<>> THEN hash_tbls_ ELSE HashTblsOf(r.partitions)
                 /\ num_spilled_partitions_' = num_spilled_partitions_ + r.spills
                 /\ agg_pc' = IF r.status = "OK" THEN "repartition" ELSE "error"
                 /\ num_repartitions_' = IF r.status = "OK" THEN num_repartitions_ + 1 ELSE num_repartitions_
                 /\ repartition_pos' = 0
                 /\ UNCHANGED <<aggregated_partitions_, output_iterator_, agg_output, cleanups>>
    /\ UNCHANGED <<seedVars, htVars, auxVarsExceptCleanups, join_hash_tbls_, joinVars, runtimeVars, is_streaming_preagg_, agg_input, child_rows_read,
                   spilled_partitions_>>

\* NextPartition's two ProcessStream calls, one row at a time: first the
\* input partition's aggregated stream (ProcessBatch<true>), then its
\* unaggregated stream (ProcessBatch<false>).  After each batch ProcessStream
\* reads GetQueryStatus, which does not read is_cancelled_.
AggProcessStream ==
    /\ RepartitionRowsLeft
    /\ LET p == Head(spilled_partitions_)
           n == Len(p.aggregated_row_stream)
       IN hash_partitions_' =
            IF repartition_pos < n
            THEN ProcessRow(hash_partitions_, p.aggregated_row_stream[repartition_pos + 1].key, p.aggregated_row_stream[repartition_pos + 1].cnt, TRUE)
            ELSE ProcessRow(hash_partitions_, p.unaggregated_row_stream[repartition_pos - n + 1], 1, FALSE)
    /\ repartition_pos' = repartition_pos + 1
    /\ batches_since_cancel' = BatchesSinceCancel(1)
    /\ UNCHANGED <<seedVars, htVars, auxVars, joinVars, is_cancelled_, num_resets, destroyed_open, agg_pc, is_streaming_preagg_, agg_input,
                   child_rows_read, aggregated_partitions_, spilled_partitions_,
                   output_partition_, output_iterator_, agg_output, agg_status,
                   num_spilled_partitions_, num_repartitions_>>

\* The rest of NextPartition's loop body: the input partition is closed and
\* popped; if the largest new spilled partition is as large as the input the
\* node fails, else MoveHashPartitions.
AggRepartitionDone ==
    /\ agg_pc = "repartition"
    /\ repartition_pos = NumRows(Head(spilled_partitions_))
    /\ LET num_input_rows == NumRows(Head(spilled_partitions_))
           m == MoveHashPartitions(hash_partitions_, Tail(spilled_partitions_), aggregated_partitions_)
       IN IF num_input_rows = LargestSpilledPartition(hash_partitions_)
          THEN /\ agg_status' = "MEM_LIMIT_EXCEEDED"
               /\ agg_pc' = "error"
               /\ spilled_partitions_' = Tail(spilled_partitions_)
               /\ UNCHANGED <<hash_partitions_, aggregated_partitions_>>
          ELSE /\ spilled_partitions_' = m.spilled_partitions
               /\ aggregated_partitions_' = m.aggregated_partitions
               /\ hash_partitions_' = <<>>
               /\ agg_pc' = "getnext"
               /\ UNCHANGED agg_status
    /\ UNCHANGED <<seedVars, htVars, auxVars, joinVars, runtimeVars, is_streaming_preagg_, agg_input, child_rows_read,
                   output_partition_, output_iterator_, repartition_pos, agg_output,
                   num_spilled_partitions_, num_repartitions_>>

\* One iteration of GetRowsStreaming's loop on a batch of one row
\* (ProcessBatchStreaming): the row updates its group if the table has it;
\* else, if the table has capacity left and the tuple can be allocated
\* (has_room), a new group is inserted; else the row is returned at once as a
\* group of its own.
AggGetRowsStreaming ==
    /\ ~is_cancelled_
    /\ agg_pc = "streaming"
    /\ child_rows_read < Len(agg_input)
    /\ \A i \in 1..Len(hash_partitions_) : hash_partitions_[i].hash_tbl
    /\ \E has_room \in BOOLEAN :
         LET key == agg_input[child_rows_read + 1]
             p == hash_partitions_[PartitionIdx(key, 0)]
         IN IF FindKey(p.aggregated_row_stream, key) # 0 \/ has_room
            THEN /\ hash_partitions_' = ProcessRow(hash_partitions_, key, 1, FALSE)
                 /\ UNCHANGED agg_output
            ELSE /\ agg_output' = Append(agg_output, [key |-> key, cnt |-> 1])
                 /\ UNCHANGED hash_partitions_
    /\ child_rows_read' = child_rows_read + 1
    /\ UNCHANGED <<seedVars, htVars, auxVars, joinVars, runtimeVars, agg_pc, is_streaming_preagg_, agg_input,
                   aggregated_partitions_, spilled_partitions_, output_partition_,
                   output_iterator_, repartition_pos, agg_status,
                   num_spilled_partitions_, num_repartitions_>>

\* GetRowsStreaming when child(0) reports eos: MoveHashPartitions.
AggStreamingEos ==
    /\ child_rows_read = 0 => ~is_cancelled_
    /\ agg_pc = "streaming"
    /\ child_rows_read = Len(agg_input)
    /\ LET m == MoveHashPartitions(hash_partitions_, spilled_partitions_, aggregated_partitions_)
       IN /\ spilled_partitions_' = m.spilled_partitions
          /\ aggregated_partitions_' = m.aggregated_partitions
    /\ hash_partitions_' = <<>>
    /\ agg_pc' = "getnext"
    /\ UNCHANGED <<seedVars, htVars, auxVars, joinVars, runtimeVars, is_streaming_preagg_, agg_input, child_rows_read,
                   output_partition_, output_iterator_, repartition_pos, agg_output,
                   agg_status, num_spilled_partitions_, num_repartitions_>>

\* ------------------------------------------------------------------------
\* PartitionedHashJoinNode (partitioned-hash-join-node.cc).  A build or probe
\* row is its position in the child's input; its join key is the input's
\* value there.  An output row is <<probe row, build row>>, 0 standing for
\* the NULL-extended side.  Except in the null-aware left anti join, keys are
\* never NULL and there are no other join conjuncts.  There is no limit, and
\* an output batch has room for all the rows of one step.  In PROCESSING_PROBE appending to the probe stream of a spilled
\* partition succeeds: BuildHashTables reserved its IO buffer, and
\* Partition::Spill is not to run in that state (its DCHECK).  In REPARTITIONING
\* the append may find the stream full and run SpillPartition.
\* ------------------------------------------------------------------------

MaxBuild == 2            \* longest build input
MaxProbe == 2            \* longest probe input
MaxJoinKey == 3          \* join keys are 0 .. MaxJoinKey

JoinKeys == 0..MaxJoinKey

JoinOps == {"INNER_JOIN", "LEFT_OUTER_JOIN", "LEFT_SEMI_JOIN", "LEFT_ANTI_JOIN", "RIGHT_OUTER_JOIN", "RIGHT_SEMI_JOIN", "RIGHT_ANTI_JOIN", "FULL_OUTER_JOIN"}

\* The join ops that return the unmatched build rows of a partition.
OutputsUnmatchedBuild(op) == op \in {"RIGHT_OUTER_JOIN", "RIGHT_ANTI_JOIN", "FULL_OUTER_JOIN"}

BuildInputs == UNION {[1..n -> JoinKeys] : n \in 0..MaxBuild}

ProbeInputs == UNION {[1..n -> JoinKeys] : n \in 0..MaxProbe}

\* Partition::Partition: empty streams, no hash table; 'matched' is the set
\* of build rows whose matched flag is set in the hash table.
JoinNewPartition(level) == [level |-> level, is_closed |-> FALSE, is_spilled |-> FALSE, hash_tbl |-> FALSE, build_rows |-> <<>>, probe_rows |-> <<>>, matched |-> {}]

\* Partition::Close
JoinPartitionClose(p) == [p EXCEPT !.is_closed = TRUE, !.build_rows = <<>>, !.probe_rows = <<>>]

\* Partition::Spill: the hash table, and its matched flags, are dropped.
JoinPartitionSpill(p) == [p EXCEPT !.hash_tbl = FALSE, !.matched = {}, !.is_spilled = TRUE]

\* Partition::BuildHashTable when it succeeds.
JoinPartitionBuilt(p) == [p EXCEPT !.hash_tbl = TRUE, !.is_spilled = FALSE]

\* Memory SpillPartition would free: the pinned build rows, plus the hash table.
JoinPartitionMem(p) == Len(p.build_rows) + 1 + (IF p.hash_tbl THEN 1 ELSE 0)

\* SpillPartition taking the first candidate instead of the largest.
JoinSpillPartitionIdxFirst(parts) ==
    LET cand == {i \in 1..Len(parts) : ~parts[i].is_closed /\ ~parts[i].is_spilled /\ ~(parts[i].hash_tbl /\ parts[i].matched # {})}
    IN IF cand = {} THEN 0 ELSE FirstIdx(cand)

\* SpillPartition without the HasMatches test of IMPALA-1488.
JoinSpillPartitionIdxIgnoringMatches(parts) ==
    LET cand == {i \in 1..Len(parts) : ~parts[i].is_closed /\ ~parts[i].is_spilled}
    IN IF cand = {} THEN 0
       ELSE CHOOSE i \in cand : \A j \in cand :
                \/ JoinPartitionMem(parts[j]) < JoinPartitionMem(parts[i])
                \/ JoinPartitionMem(parts[j]) = JoinPartitionMem(parts[i]) /\ i <= j

\* SpillPartition's choice: the first partition of the largest memory among
\* those neither closed nor spilled nor holding a hash table with matches; 0
\* when there is none (-1 in the code).
JoinSpillPartitionIdx(parts) ==
    LET cand == {i \in 1..Len(parts) : ~parts[i].is_closed /\ ~parts[i].is_spilled /\ ~(parts[i].hash_tbl /\ parts[i].matched # {})}
    IN IF cand = {} THEN 0
       ELSE CHOOSE i \in cand : \A j \in cand :
                \/ JoinPartitionMem(parts[j]) < JoinPartitionMem(parts[i])
                \/ JoinPartitionMem(parts[j]) = JoinPartitionMem(parts[i]) /\ i <= j

\* LargestSpilledPartition
JoinLargestSpilledPartition(parts) ==
    LET S == {Len(parts[i].build_rows) + Len(parts[i].probe_rows) : i \in {j \in 1..Len(parts) : ~parts[j].is_closed /\ parts[j].is_spilled}}
    IN IF S = {} THEN 0 ELSE CHOOSE m \in S : \A n \in S : n <= m

\* The first loop of BuildHashTables: an empty partition is closed; a
\* partition not yet spilled gets its hash table if its index is in 'built',
\* and is spilled otherwise.
BuildHashTablesLoop(parts, built) ==
    [i \in 1..Len(parts) |->
        IF Len(parts[i].build_rows) = 0 THEN JoinPartitionClose(parts[i])
        ELSE IF parts[i].is_spilled THEN parts[i]
        ELSE IF i \in built THEN JoinPartitionBuilt(parts[i])
        ELSE JoinPartitionSpill(parts[i])]

\* The build rows of a hash table that equal the key of a probe row.
Matches(p, key, build) == {b \in Range(p.build_rows) : build[b] = key}

\* ProcessProbeBatch for one probe row against a hash table: the rows it
\* returns for the join op.
ProbeOutput(op, p, row, key, build) ==
    LET m == Matches(p, key, build)
    IN CASE op = "INNER_JOIN" -> {<<row, b>> : b \in m}
         [] op = "LEFT_OUTER_JOIN" -> IF m = {} THEN {<<row, 0>>} ELSE {<<row, b>> : b \in m}
         [] op = "LEFT_SEMI_JOIN" -> IF m = {} THEN {} ELSE {<<row, 0>>}
         [] op = "LEFT_ANTI_JOIN" -> IF m = {} THEN {<<row, 0>>} ELSE {}
         [] op = "RIGHT_OUTER_JOIN" -> {<<row, b>> : b \in m}
         [] op = "RIGHT_SEMI_JOIN" -> {<<0, b>> : b \in m \ p.matched}
         [] op = "RIGHT_ANTI_JOIN" -> {}
         [] op = "FULL_OUTER_JOIN" -> IF m = {} THEN {<<row, 0>>} ELSE {<<row, b>> : b \in m}

\* The matched flags ProcessProbeBatch sets for the row.
ProbeMatched(op, p, key, build) ==
    IF op \in {"RIGHT_OUTER_JOIN", "RIGHT_SEMI_JOIN", "RIGHT_ANTI_JOIN", "FULL_OUTER_JOIN"}
    THEN p.matched \cup Matches(p, key, build)
    ELSE p.matched

\* OutputUnmatchedBuild for one partition.
UnmatchedOutput(p) == {<<0, b>> : b \in Range(p.build_rows) \ p.matched}

RECURSIVE CleanUpHashPartitionsFrom(_, _, _, _, _)
CleanUpHashPartitionsFrom(parts, i, op, spilled, output_build) ==
    IF i > Len(parts)
    THEN [spilled_partitions |-> spilled, output_build_partitions |-> output_build]
    ELSE IF parts[i].is_closed
    THEN CleanUpHashPartitionsFrom(parts, i + 1, op, spilled, output_build)
    ELSE IF parts[i].is_spilled
    THEN CleanUpHashPartitionsFrom(parts, i + 1, op, <<parts[i]>> \o spilled, output_build)
    ELSE IF OutputsUnmatchedBuild(op)
    THEN CleanUpHashPartitionsFrom(parts, i + 1, op, spilled, Append(output_build, parts[i]))
    ELSE CleanUpHashPartitionsFrom(parts, i + 1, op, spilled, output_build)

\* CleanUpHashPartitions closing the spilled partitions instead of queueing them.
CleanUpHashPartitionsClosingSpilled(parts, op, spilled, output_build) ==
    [spilled_partitions |-> spilled, output_build_partitions |-> IF OutputsUnmatchedBuild(op) THEN output_build \o SelectSeq(parts, LAMBDA p : ~p.is_closed /\ ~p.is_spilled) ELSE output_build]

\* CleanUpHashPartitions: a spilled partition goes to the front of
\* spilled_partitions_; a partition with a hash table is closed, or queued
\* for its unmatched build rows.
CleanUpHashPartitions(parts, op, spilled, output_build) ==
    CleanUpHashPartitionsFrom(parts, 1, op, spilled, output_build)

\* The other join conjunct of the null-aware left anti join, over the
\* non-key columns: the rows are taken to satisfy it when their positions in
\* the inputs have the same parity.
OtherConjunct(probe_row, build_row) == (probe_row + build_row) % 2 = 0

\* The partition Open creates for the NULL-key build rows.
NullAwarePartition == [build_rows |-> <<>>, probe_rows |-> <<>>]

\* EvaluateNullProbe(build): the matched flags of the NULL-key probe rows
\* after the pairwise evaluation against the build rows of one stream.
EvaluateNullProbe(build, null_probe, matched) ==
    [i \in 1..Len(matched) |-> matched[i] \/ \E b \in Range(build) : OtherConjunct(null_probe[i], b)]

\* The calls of EvaluateNullProbe CleanUpHashPartitions makes, one for each
\* partition from the i-th on that is neither closed nor spilled.
RECURSIVE EvaluateNullProbeFrom(_, _, _, _)
EvaluateNullProbeFrom(parts, i, null_probe, matched) ==
    IF i > Len(parts) THEN matched
    ELSE IF parts[i].is_closed \/ parts[i].is_spilled
    THEN EvaluateNullProbeFrom(parts, i + 1, null_probe, matched)
    ELSE EvaluateNullProbeFrom(parts, i + 1, null_probe, EvaluateNullProbe(parts[i].build_rows, null_probe, matched))

\* The rows ProcessBuildInput reads: child(1)'s rows at level 0, the build
\* rows of input_partition_ when repartitioning.
BuildSource == IF input_partition_ = <<>> THEN [i \in 1..Len(build_input) |-> i] ELSE input_partition_[1].build_rows

\* The rows the probe phase reads: child(0)'s rows, or the probe rows of
\* input_partition_.
ProbeSource == IF input_partition_ = <<>> THEN [i \in 1..Len(probe_input) |-> i] ELSE input_partition_[1].probe_rows

\* Open / ConstructBuildSide: a null-aware left anti join gets its partition
\* for the NULL-key build rows; ProcessBuildInput(0) creates the partitions.
JoinConstructBuildSide ==
    /\ join_pc = "new"
    /\ join_hash_partitions_' = [i \in 1..Fanout |-> JoinNewPartition(0)]
    /\ join_pc' = "build"
    /\ build_rows_read' = 0
    /\ null_aware_partition_' = IF join_op_ = "NULL_AWARE_LEFT_ANTI_JOIN" THEN <<NullAwarePartition>> ELSE <<>>
    /\ UNCHANGED <<seedVars, htVars, auxVars, aggVars, runtimeVars, null_probe_rows_, matched_null_probe_, state_, join_op_, build_input, probe_input,
                   probe_rows_read, join_spilled_partitions_, input_partition_,
                   output_build_partitions_, join_output, join_status,
                   join_num_spilled_partitions_, join_num_repartitions_>>

\* ProcessBuildInput's loop body, ProcessBuildBatch on one row: the row is
\* appended to the build stream of the partition its hash selects; a row with
\* a NULL key (null-aware left anti join) goes to null_aware_partition_.
JoinProcessBuildBatch ==
    /\ ~is_cancelled_
    /\ join_pc = "build"
    /\ build_rows_read < Len(BuildSource)
    /\ LET row == BuildSource[build_rows_read + 1]
           idx == PartitionIdx(build_input[row], join_hash_partitions_[1].level)
       IN IF build_input[row] = NullPtr
          THEN /\ null_aware_partition_' = <<[null_aware_partition_[1] EXCEPT !.build_rows = Append(@, row)]>>
               /\ UNCHANGED join_hash_partitions_
          ELSE /\ join_hash_partitions_' = [join_hash_partitions_ EXCEPT ![idx].build_rows = Append(@, row)]
               /\ UNCHANGED null_aware_partition_
    /\ build_rows_read' = build_rows_read + 1
    /\ UNCHANGED <<seedVars, htVars, auxVars, aggVars, runtimeVars, null_probe_rows_, matched_null_probe_, join_pc, state_, join_op_, build_input,
                   probe_input, probe_rows_read, join_spilled_partitions_,
                   input_partition_, output_build_partitions_, join_output, join_status,
                   join_num_spilled_partitions_, join_num_repartitions_>>

\* The next probe row of a repartitioned input goes to the probe stream of a
\* spilled partition (ProcessProbeBatch appends it with AppendRow).
ProbeRowAppends ==
    /\ join_pc = "probe"
    /\ state_ = "REPARTITIONING"
    /\ probe_rows_read < Len(ProbeSource)
    /\ LET p == join_hash_partitions_[PartitionIdx(probe_input[ProbeSource[probe_rows_read + 1]], join_hash_partitions_[1].level)]
       IN ~p.is_closed /\ p.is_spilled

\* A stream could not grow and SpillPartition runs: from AppendRowStreamFull
\* while a build row is appended, or a probe row of a repartitioned input; or
\* from BuildHashTables while the IO buffer of a spilled partition's probe
\* stream is reserved.
JoinSpillPartition ==
    /\ \/ join_pc = "build" /\ build_rows_read < Len(BuildSource)
       \/ join_pc = "reserve" /\ \E i \in 1..Len(join_hash_partitions_) : ~join_hash_partitions_[i].is_closed /\ join_hash_partitions_[i].is_spilled
       \/ ProbeRowAppends
    /\ LET idx == JoinSpillPartitionIdx(join_hash_partitions_)
       IN IF idx = 0
          THEN /\ join_status' = "MEM_LIMIT_TOO_LOW"
               /\ join_pc' = "error"
               /\ UNCHANGED <<join_hash_partitions_, join_hash_tbls_, join_num_spilled_partitions_>>
          ELSE /\ join_hash_partitions_' = [join_hash_partitions_ EXCEPT ![idx] = JoinPartitionSpill(@)]
               /\ join_hash_tbls_' = HashTblsAfterSpill(join_hash_tbls_, idx)
               /\ join_num_spilled_partitions_' = join_num_spilled_partitions_ + 1
               /\ UNCHANGED <<join_status, join_pc>>
    /\ UNCHANGED <<seedVars, htVars, auxVarsExceptHashTbls, hash_tbls_, aggVars, runtimeVars, naajVars, state_, join_op_, build_input, probe_input,
                   build_rows_read, probe_rows_read, join_spilled_partitions_,
                   input_partition_, output_build_partitions_, join_output,
                   join_num_repartitions_>>

\* The build rows BuildHashTable reads for the partitions in built, from the
\* i-th partition on.
RECURSIVE SumBuildRowsOf(_, _, _)
SumBuildRowsOf(parts, built, i) ==
    IF i > Len(parts) THEN 0
    ELSE (IF i \in built THEN Len(parts[i].build_rows) ELSE 0) + SumBuildRowsOf(parts, built, i + 1)

\* The end of ProcessBuildInput: the repartitioned input's build stream is
\* closed, and the first loop of BuildHashTables builds the hash table of
\* every partition not yet spilled, or spills it when that fails.
\* Partition::BuildHashTable re-reads the build rows batch by batch and reads
\* GetQueryStatus after each, which does not read is_cancelled_.
JoinBuildHashTables ==
    /\ join_pc = "build"
    /\ build_rows_read = Len(BuildSource)
    /\ build_rows_read = 0 => ~is_cancelled_
    /\ \E built \in SUBSET (1..Fanout) :
         /\ \A i \in built : Len(join_hash_partitions_[i].build_rows) > 0 /\ ~join_hash_partitions_[i].is_spilled
         /\ batches_since_cancel' = BatchesSinceCancel(SumBuildRowsOf(join_hash_partitions_, built, 1))
         /\ join_hash_partitions_' = BuildHashTablesLoop(join_hash_partitions_, built)
         /\ join_num_spilled_partitions_' = join_num_spilled_partitions_ + Cardinality({i \in 1..Fanout : Len(join_hash_partitions_[i].build_rows) > 0 /\ ~join_hash_partitions_[i].is_spilled /\ i \notin built})
    /\ input_partition_' = IF input_partition_ = <<>> THEN <<>> ELSE <<[input_partition_[1] EXCEPT !.build_rows = <<>>]>>
    /\ join_pc' = "reserve"
    /\ UNCHANGED <<seedVars, htVars, auxVars, aggVars, is_cancelled_, num_resets, destroyed_open, naajVars, state_, join_op_, build_input, probe_input,
                   build_rows_read, probe_rows_read, join_spilled_partitions_,
                   output_build_partitions_, join_output, join_status,
                   join_num_repartitions_>>

\* UpdateState(PROCESSING_PROBE) run after every ProcessBuildInput.
StateAfterBuildAlwaysProbe(state) == "PROCESSING_PROBE"

\* The state after ProcessBuildInput returns: ConstructBuildSide calls
\* UpdateState(PROCESSING_PROBE); PrepareNextPartition leaves the state alone.
StateAfterBuild(state) == IF state = "PARTITIONING_BUILD" THEN "PROCESSING_PROBE" ELSE state

\* The end of BuildHashTables, which fills the hash_tbls_ cache.  At level 0 ConstructBuildSide moves to
\* PROCESSING_PROBE; when repartitioning, PrepareNextPartition fails if the
\* largest spilled partition is as large as the input was.
JoinBuildDone ==
    /\ join_pc = "reserve"
    /\ IF state_ = "REPARTITIONING" /\ build_rows_read = JoinLargestSpilledPartition(join_hash_partitions_)
       THEN /\ join_status' = "MEM_LIMIT_EXCEEDED"
            /\ join_pc' = "error"
            /\ UNCHANGED <<state_, join_num_repartitions_>>
       ELSE /\ join_pc' = "probe"
            /\ state_' = StateAfterBuild(state_)
            /\ join_num_repartitions_' = IF state_ = "REPARTITIONING" THEN join_num_repartitions_ + 1 ELSE join_num_repartitions_
            /\ UNCHANGED join_status
    /\ probe_rows_read' = 0
    /\ join_hash_tbls_' = HashTblsOf(join_hash_partitions_)
    /\ UNCHANGED <<seedVars, htVars, auxVarsExceptHashTbls, hash_tbls_, aggVars, runtimeVars, naajVars, join_op_, build_input, probe_input,
                   build_rows_read, join_hash_partitions_, join_spilled_partitions_,
                   input_partition_, output_build_partitions_, join_output,
                   join_num_spilled_partitions_>>

\* GetNext, ProcessProbeBatch on one probe row.  The row probes the hash
\* table its hash selects (the one table of input_partition_ in
\* PROBING_SPILLED_PARTITION); it finds no match in a partition closed for its
\* empty build side; it is appended to the probe stream of a spilled partition.
JoinProcessProbeBatch ==
    /\ ~is_cancelled_
    /\ join_pc = "probe"
    /\ join_op_ # "NULL_AWARE_LEFT_ANTI_JOIN"
    /\ probe_rows_read < Len(ProbeSource)
    /\ LET row == ProbeSource[probe_rows_read + 1]
           key == probe_input[row]
       IN IF state_ = "PROBING_SPILLED_PARTITION"
          THEN /\ join_output' = join_output (+) SetToBag(ProbeOutput(join_op_, input_partition_[1], row, key, build_input))
               /\ input_partition_' = <<[input_partition_[1] EXCEPT !.matched = ProbeMatched(join_op_, input_partition_[1], key, build_input)]>>
               /\ UNCHANGED join_hash_partitions_
          ELSE LET idx == PartitionIdx(key, join_hash_partitions_[1].level)
                   p == join_hash_partitions_[idx]
               IN /\ UNCHANGED input_partition_
                  /\ IF p.hash_tbl \/ p.is_closed
                     THEN /\ join_output' = join_output (+) SetToBag(ProbeOutput(join_op_, p, row, key, build_input))
                          /\ join_hash_partitions_' = [join_hash_partitions_ EXCEPT ![idx].matched = ProbeMatched(join_op_, p, key, build_input)]
                     ELSE /\ join_hash_partitions_' = [join_hash_partitions_ EXCEPT ![idx].probe_rows = Append(@, row)]
                          /\ UNCHANGED join_output
    /\ probe_rows_read' = probe_rows_read + 1
    /\ UNCHANGED <<seedVars, htVars, auxVars, aggVars, runtimeVars, naajVars, join_pc, state_, join_op_, build_input,
                   probe_input, build_rows_read, join_spilled_partitions_,
                   output_build_partitions_, join_status, join_num_spilled_partitions_,
                   join_num_repartitions_>>

\* GetNext when the probe rows are used up: NextSpilledProbeRowBatch closes
\* input_partition_, or queues it for its unmatched build rows when it has a
\* hash table and the join op returns them; then CleanUpHashPartitions, which
\* in a null-aware left anti join calls EvaluateNullProbe on the build rows of
\* each partition of hash_partitions_ it closes (got_rows: GetRows brought the
\* streams into memory).
JoinCleanUpHashPartitions ==
    /\ join_pc = "probe"
    /\ probe_rows_read = Len(ProbeSource)
    /\ probe_rows_read = 0 => ~is_cancelled_
    /\ LET queue_input == input_partition_ # <<>> /\ ~input_partition_[1].is_spilled /\ OutputsUnmatchedBuild(join_op_)
           ob == IF queue_input THEN Append(output_build_partitions_, input_partition_[1]) ELSE output_build_partitions_
           c == CleanUpHashPartitions(join_hash_partitions_, join_op_, join_spilled_partitions_, ob)
           evaluates == /\ join_op_ = "NULL_AWARE_LEFT_ANTI_JOIN"
                        /\ null_probe_rows_ # <<>>
                        /\ \E i \in 1..Len(join_hash_partitions_) : ~join_hash_partitions_[i].is_closed /\ ~join_hash_partitions_[i].is_spilled
       IN \E got_rows \in BOOLEAN :
            /\ ~evaluates => got_rows
            /\ IF got_rows
               THEN /\ join_spilled_partitions_' = c.spilled_partitions
                    /\ output_build_partitions_' = c.output_build_partitions
                    /\ join_pc' = IF OutputsUnmatchedBuild(join_op_) /\ c.output_build_partitions # <<>> THEN "unmatched" ELSE "next"
                    /\ matched_null_probe_' = IF evaluates THEN EvaluateNullProbeFrom(join_hash_partitions_, 1, null_probe_rows_, matched_null_probe_) ELSE matched_null_probe_
                    /\ join_hash_partitions_' = <<>>
                    /\ input_partition_' = <<>>
                    /\ UNCHANGED join_status
               ELSE /\ join_status' = "NULL_AWARE_ANTI_JOIN_TOO_MANY_NULLS"
                    /\ join_pc' = "error"
                    /\ UNCHANGED <<join_spilled_partitions_, output_build_partitions_, matched_null_probe_, join_hash_partitions_, input_partition_>>
    /\ UNCHANGED <<seedVars, htVars, auxVars, aggVars, runtimeVars, null_aware_partition_, null_probe_rows_, state_, join_op_, build_input, probe_input,
                   build_rows_read, probe_rows_read, join_output,
                   join_num_spilled_partitions_, join_num_repartitions_>>

\* GetNext, OutputUnmatchedBuild: the unmatched build rows of the first
\* queued partition are returned and the partition is closed.
JoinOutputUnmatchedBuild ==
    /\ ~is_cancelled_
    /\ join_pc = "unmatched"
    /\ join_output' = join_output (+) SetToBag(UnmatchedOutput(Head(output_build_partitions_)))
    /\ output_build_partitions_' = Tail(output_build_partitions_)
    /\ join_pc' = IF Tail(output_build_partitions_) = <<>> THEN "next" ELSE "unmatched"
    /\ UNCHANGED <<seedVars, htVars, auxVars, aggVars, runtimeVars, naajVars, state_, join_op_, build_input, probe_input,
                   build_rows_read, probe_rows_read, join_hash_partitions_,
                   join_spilled_partitions_, input_partition_, join_status,
                   join_num_spilled_partitions_, join_num_repartitions_>>

\* GetNext, ProcessProbeBatch<NULL_AWARE_LEFT_ANTI_JOIN> on one probe row.  A
\* row with a NULL key is returned if the build side is empty (non_empty_build_
\* is false), else it is kept in null_probe_rows_.  Another row is appended to
\* the probe stream of its partition if that is spilled; else it probes the
\* hash table: with a match that satisfies the other conjunct it is dropped;
\* without, it is returned, or kept in the probe stream of
\* null_aware_partition_ if there are NULL-key build rows.
JoinProcessProbeBatchNullAware ==
    /\ ~is_cancelled_
    /\ join_pc = "probe"
    /\ join_op_ = "NULL_AWARE_LEFT_ANTI_JOIN"
    /\ probe_rows_read < Len(ProbeSource)
    /\ LET row == ProbeSource[probe_rows_read + 1]
           key == probe_input[row]
           returned == /\ join_output' = join_output (+) SetToBag({<<row, 0>>})
                       /\ UNCHANGED <<join_hash_partitions_, naajVars>>
       IN IF key = NullPtr
          THEN IF Len(build_input) > 0
               THEN /\ null_probe_rows_' = Append(null_probe_rows_, row)
                    /\ matched_null_probe_' = Append(matched_null_probe_, FALSE)
                    /\ UNCHANGED <<join_output, join_hash_partitions_, null_aware_partition_>>
               ELSE returned
          ELSE LET in_input == state_ = "PROBING_SPILLED_PARTITION"
                   idx == IF in_input THEN 0 ELSE PartitionIdx(key, join_hash_partitions_[1].level)
                   p == IF in_input THEN input_partition_[1] ELSE join_hash_partitions_[idx]
               IN IF ~p.hash_tbl /\ ~p.is_closed
                  THEN /\ join_hash_partitions_' = [join_hash_partitions_ EXCEPT ![idx].probe_rows = Append(@, row)]
                       /\ UNCHANGED <<join_output, naajVars>>
                  ELSE IF \E b \in Matches(p, key, build_input) : OtherConjunct(row, b)
                  THEN UNCHANGED <<join_output, join_hash_partitions_, naajVars>>
                  ELSE IF null_aware_partition_[1].build_rows # <<>>
                  THEN /\ null_aware_partition_' = <<[null_aware_partition_[1] EXCEPT !.probe_rows = Append(@, row)]>>
                       /\ UNCHANGED <<join_output, join_hash_partitions_, null_probe_rows_, matched_null_probe_>>
                  ELSE returned
    /\ probe_rows_read' = probe_rows_read + 1
    /\ UNCHANGED <<seedVars, htVars, auxVars, aggVars, runtimeVars, join_pc, state_, join_op_, build_input,
                   probe_input, build_rows_read, join_spilled_partitions_, input_partition_,
                   output_build_partitions_, join_status, join_num_spilled_partitions_,
                   join_num_repartitions_>>

\* GetNext, PrepareNullAwarePartition, once no spilled partition is left:
\* without NULL-key build rows the NULL-key probe rows are output next; else
\* the NULL-key build rows are brought into memory (got_rows), or the join
\* fails.
JoinPrepareNullAwarePartition ==
    /\ join_pc = "prepare_null_aware"
    /\ \E got_rows \in BOOLEAN :
         IF null_aware_partition_[1].build_rows = <<>>
         THEN got_rows /\ join_pc' = "null_probe" /\ UNCHANGED join_status
         ELSE IF got_rows
         THEN join_pc' = "null_aware" /\ UNCHANGED join_status
         ELSE join_pc' = "error" /\ join_status' = "NULL_AWARE_ANTI_JOIN_TOO_MANY_NULLS"
    /\ UNCHANGED <<seedVars, htVars, auxVars, aggVars, runtimeVars, naajVars, state_, join_op_, build_input,
                   probe_input, build_rows_read, probe_rows_read, join_hash_partitions_,
                   join_spilled_partitions_, input_partition_, output_build_partitions_,
                   join_output, join_num_spilled_partitions_, join_num_repartitions_>>

\* GetNext, OutputNullAwareProbeRows: each probe row kept in
\* null_aware_partition_ is returned unless a NULL-key build row satisfies the
\* other conjunct with it; at the end of the stream EvaluateNullProbe runs on
\* the NULL-key build rows.
JoinOutputNullAwareProbeRows ==
    /\ ~is_cancelled_
    /\ join_pc = "null_aware"
    /\ \E got_rows \in BOOLEAN :
         /\ null_probe_rows_ = <<>> => got_rows
         /\ IF got_rows
            THEN /\ join_output' = join_output (+) SetToBag({<<r, 0>> : r \in {q \in Range(null_aware_partition_[1].probe_rows) : ~\E b \in Range(null_aware_partition_[1].build_rows) : OtherConjunct(q, b)}})
                 /\ matched_null_probe_' = EvaluateNullProbe(null_aware_partition_[1].build_rows, null_probe_rows_, matched_null_probe_)
                 /\ join_pc' = "null_probe"
                 /\ UNCHANGED join_status
            ELSE /\ join_status' = "NULL_AWARE_ANTI_JOIN_TOO_MANY_NULLS"
                 /\ join_pc' = "error"
                 /\ UNCHANGED <<join_output, matched_null_probe_>>
    /\ UNCHANGED <<seedVars, htVars, auxVars, aggVars, runtimeVars, null_aware_partition_, null_probe_rows_, state_, join_op_,
                   build_input, probe_input, build_rows_read, probe_rows_read,
                   join_hash_partitions_, join_spilled_partitions_, input_partition_,
                   output_build_partitions_, join_num_spilled_partitions_,
                   join_num_repartitions_>>

\* GetNext, OutputNullAwareNullProbe: the NULL-key probe rows whose
\* matched_null_probe_ flag is not set are returned; null_aware_partition_ is
\* closed and the join is at eos.
JoinOutputNullAwareNullProbe ==
    /\ ~is_cancelled_
    /\ join_pc = "null_probe"
    /\ join_output' = join_output (+) SetToBag({<<null_probe_rows_[i], 0>> : i \in {j \in 1..Len(null_probe_rows_) : ~matched_null_probe_[j]}})
    /\ null_aware_partition_' = <<>>
    /\ join_pc' = "eos"
    /\ UNCHANGED <<seedVars, htVars, auxVars, aggVars, runtimeVars, null_probe_rows_, matched_null_probe_, state_, join_op_,
                   build_input, probe_input, build_rows_read, probe_rows_read,
                   join_hash_partitions_, join_spilled_partitions_, input_partition_,
                   output_build_partitions_, join_status, join_num_spilled_partitions_,
                   join_num_repartitions_>>

\* GetNext, PrepareNextPartition: eos when no spilled partition is left.
\* Else the first one becomes input_partition_; if its hash table can be
\* built its probe rows are probed against it, else its build rows are
\* repartitioned by ProcessBuildInput(level + 1).
JoinPrepareNextPartition ==
    /\ join_pc = "next"
    /\ IF join_spilled_partitions_ = <<>>
       THEN /\ join_pc' = IF join_op_ = "NULL_AWARE_LEFT_ANTI_JOIN" THEN "prepare_null_aware" ELSE "eos"
            /\ UNCHANGED <<batches_since_cancel, state_, build_rows_read, probe_rows_read, join_hash_partitions_, join_hash_tbls_,
                           join_spilled_partitions_, input_partition_, join_status,
                           join_num_repartitions_>>
       ELSE \E got_read_buffer, built \in BOOLEAN :
              LET input == Head(join_spilled_partitions_)
              IN /\ join_spilled_partitions_' = Tail(join_spilled_partitions_)
                 /\ IF ~got_read_buffer
                    THEN /\ input_partition_' = <<input>>
                         /\ join_status' = "MEM_LIMIT_EXCEEDED"
                         /\ join_pc' = "error"
                         /\ UNCHANGED <<batches_since_cancel, state_, build_rows_read, probe_rows_read,
                                        join_hash_partitions_, join_hash_tbls_, join_num_repartitions_>>
                    ELSE IF built
                    THEN /\ input_partition_' = <<JoinPartitionBuilt(input)>>
                         /\ batches_since_cancel' = BatchesSinceCancel(Len(input.build_rows))
                         /\ state_' = "PROBING_SPILLED_PARTITION"
                         /\ join_pc' = "probe"
                         /\ probe_rows_read' = 0
                         /\ join_num_repartitions_' = join_num_repartitions_ + 1
                         /\ join_hash_tbls_' = [i \in 1..Fanout |-> InputPartitionHashTbl]
                         /\ UNCHANGED <<build_rows_read, join_hash_partitions_, join_status>>
                    ELSE IF input.level + 1 >= MaxPartitionDepth
                    THEN /\ input_partition_' = <<input>>
                         /\ state_' = "REPARTITIONING"
                         /\ join_status' = "PARTITIONED_HASH_JOIN_MAX_PARTITION_DEPTH"
                         /\ join_pc' = "error"
                         /\ UNCHANGED <<batches_since_cancel, build_rows_read, probe_rows_read,
                                        join_hash_partitions_, join_hash_tbls_, join_num_repartitions_>>
                    ELSE /\ input_partition_' = <<input>>
                         /\ state_' = "REPARTITIONING"
                         /\ join_hash_partitions_' = [i \in 1..Fanout |-> JoinNewPartition(input.level + 1)]
                         /\ join_pc' = "build"
                         /\ build_rows_read' = 0
                         /\ UNCHANGED <<batches_since_cancel, probe_rows_read, join_status, join_hash_tbls_, join_num_repartitions_>>
    /\ UNCHANGED <<seedVars, htVars, auxVarsExceptHashTbls, hash_tbls_, aggVars, is_cancelled_, num_resets, destroyed_open, naajVars, join_op_, build_input, probe_input,
                   output_build_partitions_, join_output, join_num_spilled_partitions_>>

\* A resident partition with a hash table of num_buckets buckets, `filled` of
\* them filled by the groups of its aggregated stream.
ResidentPartition(num_buckets, filled) ==
    [NewPartition(0) EXCEPT !.aggregated_row_stream = [j \in 1..filled |-> [key |-> j, cnt |-> 1]]] @@ [num_buckets_ |-> num_buckets, num_filled_buckets_ |-> filled]

\* A partition that was spilled: it has no hash table.
SpilledPartition == PartitionSpill(NewPartition(0)) @@ [num_buckets_ |-> 0, num_filled_buckets_ |-> 0]

\* A CheckAndResize that reports success although the table was not resized.
PartitionCheckAndResizeIgnoringFailure(p, num_rows, granted) == [ok |-> TRUE, partition |-> p]

\* HashTable::CheckAndResize(num_rows) on partition p with the block
\* manager's answer `granted`: no resize when the rows fit, failure when the
\* target exceeds max_num_buckets or the memory is refused.
PartitionCheckAndResize(p, num_rows, granted) ==
    LET shift == ResizeShift(p.num_filled_buckets_, num_rows, p.num_buckets_, 0)
        num_buckets == p.num_buckets_ * (2 ^ shift)
    IN IF shift = 0 THEN [ok |-> TRUE, partition |-> p]
       ELSE IF num_buckets > 2 ^ MaxBucketsLog \/ ~granted THEN [ok |-> FALSE, partition |-> p]
       ELSE [ok |-> TRUE, partition |-> [p EXCEPT !.num_buckets_ = num_buckets]]

\* One pass of CheckAndResizeHashPartitions through the body of its while
\* loop, or past a spilled partition: CheckAndResize on partition i, and
\* SpillPartition when it fails.
AggCheckAndResizeHashPartitions ==
    /\ agg_pc = "resize"
    /\ IF resize_i > Fanout
       THEN /\ agg_pc' = "resized"
            /\ UNCHANGED <<hash_partitions_, hash_tbls_, resize_i, agg_status, num_spilled_partitions_>>
       ELSE IF IsSpilled(hash_partitions_[resize_i])
       THEN /\ resize_i' = resize_i + 1
            /\ UNCHANGED <<hash_partitions_, hash_tbls_, agg_pc, agg_status, num_spilled_partitions_>>
       ELSE \E granted \in BOOLEAN :
              LET r == PartitionCheckAndResize(hash_partitions_[resize_i], resize_num_rows, granted)
                  idx == SpillPartitionIdx(hash_partitions_)
              IN IF r.ok
                 THEN /\ hash_partitions_' = [hash_partitions_ EXCEPT ![resize_i] = r.partition]
                      /\ resize_i' = resize_i + 1
                      /\ UNCHANGED <<hash_tbls_, agg_pc, agg_status, num_spilled_partitions_>>
                 ELSE IF idx = 0
                 THEN /\ agg_status' = "MEM_LIMIT_TOO_LOW"
                      /\ agg_pc' = "error"
                      /\ UNCHANGED <<hash_partitions_, hash_tbls_, resize_i, num_spilled_partitions_>>
                 ELSE /\ hash_partitions_' = [hash_partitions_ EXCEPT ![idx] = PartitionSpill(@)]
                      /\ hash_tbls_' = HashTblsAfterSpill(hash_tbls_, idx)
                      /\ num_spilled_partitions_' = num_spilled_partitions_ + 1
                      /\ UNCHANGED <<resize_i, agg_pc, agg_status>>
    /\ UNCHANGED <<seedVars, htVars, eosVars, varLenVars, joinVars, runtimeVars, cleanupVars, appendVars, unmatchedVars, expandVars, statusVars, join_hash_tbls_, resize_num_rows, is_streaming_preagg_,
                   agg_input, child_rows_read, aggregated_partitions_, spilled_partitions_,
                   output_partition_, output_iterator_, repartition_pos, agg_output,
                   num_repartitions_>>

\* BufferedTupleStream::AddRow(row, &status): the row is appended and true is
\* returned, or nothing is appended.
AddRowDespiteFailure(stream, row, added) == Append(stream, row)

AddRow(stream, row, added) == IF added THEN Append(stream, row) ELSE stream

\* What the first AddRow of AppendSpilledRow can report: the row is added, an
\* error, or, on small buffers only, that an I/O buffer is needed.
AddRowOutcomes == {"ok", "error"} \cup (IF using_small_buffers THEN {"needs_large_buffer"} ELSE {})

\* AppendSpilledRow up to its loop: the first AddRow on the unaggregated
\* stream of the spilled partition of the row.
AggAppendSpilledRow ==
    /\ agg_pc = "append"
    /\ \E outcome \in AddRowOutcomes :
         /\ hash_partitions_' = [hash_partitions_ EXCEPT ![append_idx].unaggregated_row_stream = AddRow(@, agg_input[child_rows_read + 1], outcome = "ok")]
         /\ agg_pc' = CASE outcome = "ok" -> "appended"
                         [] outcome = "error" -> "error"
                         [] OTHER -> "switch_io"
         /\ agg_status' = IF outcome = "error" THEN "IO_ERROR" ELSE agg_status
         /\ child_rows_read' = IF outcome = "ok" THEN child_rows_read + 1 ELSE child_rows_read
    /\ UNCHANGED <<seedVars, htVars, joinVars, runtimeVars, auxVars, is_streaming_preagg_,
                   agg_input, aggregated_partitions_, spilled_partitions_,
                   output_partition_, output_iterator_, repartition_pos, agg_output,
                   num_spilled_partitions_, num_repartitions_>>

\* One pass of AppendSpilledRow's loop: SwitchToIoBuffers, then SpillPartition
\* when no buffer was obtained; with the buffer, the second AddRow and the
\* return.
AggAppendSpilledRowSwitchToIoBuffers ==
    /\ agg_pc = "switch_io"
    /\ \E switched \in {"got_buffer", "no_buffer", "error"}, added \in BOOLEAN :
         LET idx == SpillPartitionIdx(hash_partitions_)
         IN CASE switched = "error" ->
                   /\ added
                   /\ agg_status' = "IO_ERROR"
                   /\ agg_pc' = "error"
                   /\ UNCHANGED <<hash_partitions_, hash_tbls_, child_rows_read, num_spilled_partitions_, using_small_buffers>>
              [] switched = "got_buffer" ->
                   /\ using_small_buffers' = FALSE
                   /\ hash_partitions_' = [hash_partitions_ EXCEPT ![append_idx].unaggregated_row_stream = AddRow(@, agg_input[child_rows_read + 1], added)]
                   /\ agg_pc' = IF added THEN "appended" ELSE "error"
                   /\ agg_status' = IF added THEN agg_status ELSE "IO_ERROR"
                   /\ child_rows_read' = IF added THEN child_rows_read + 1 ELSE child_rows_read
                   /\ UNCHANGED <<hash_tbls_, num_spilled_partitions_>>
              [] OTHER ->
                   /\ added
                   /\ IF idx = 0
                      THEN /\ agg_status' = "MEM_LIMIT_TOO_LOW"
                           /\ agg_pc' = "error"
                           /\ UNCHANGED <<hash_partitions_, hash_tbls_, num_spilled_partitions_>>
                      ELSE /\ hash_partitions_' = [hash_partitions_ EXCEPT ![idx] = PartitionSpill(@)]
                           /\ hash_tbls_' = HashTblsAfterSpill(hash_tbls_, idx)
                           /\ num_spilled_partitions_' = num_spilled_partitions_ + 1
                           /\ UNCHANGED <<agg_pc, agg_status>>
                   /\ UNCHANGED <<child_rows_read, using_small_buffers>>
    /\ UNCHANGED <<seedVars, htVars, eosVars, varLenVars, joinVars, runtimeVars, resizeVars, cleanupVars, unmatchedVars, expandVars, statusVars, join_hash_tbls_, append_idx,
                   is_streaming_preagg_, agg_input, aggregated_partitions_, spilled_partitions_,
                   output_partition_, output_iterator_, repartition_pos, agg_output,
                   num_repartitions_>>

\* Rows an output batch can still take when OutputUnmatchedBuild is called.
BatchCapacity == 2

\* The conjuncts of the join on an unmatched build row: the rows at odd
\* positions of the build input are taken to pass.
UnmatchedConjunct(build_row) == build_row % 2 = 1

\* An iterator that takes every entry as unmatched.
IsMatchedNever(p, it) == FALSE

\* Iterator::IsMatched at position `it` of the hash table of partition p.
IsMatched(p, it) == p.build_rows[it] \in p.matched

\* Iterator::AtEnd
AtEnd(p, it) == it > Len(p.build_rows)

\* The first position from `it` on whose entry is not matched; the end if
\* there is none.
RECURSIVE NextUnmatchedFrom(_, _)
NextUnmatchedFrom(p, it) ==
    IF AtEnd(p, it) \/ ~IsMatched(p, it) THEN it ELSE NextUnmatchedFrom(p, it + 1)

\* HashTable::FirstUnmatched
FirstUnmatched(p) == NextUnmatchedFrom(p, 1)

\* Iterator::NextUnmatched
NextUnmatched(p, it) == NextUnmatchedFrom(p, it + 1)

\* The loop of OutputUnmatchedBuild on a batch with room for `room` rows:
\* an entry that is not matched gives an output row, which is committed if it
\* passes the conjuncts, and is marked with SetMatched; then NextUnmatched.
RECURSIVE OutputUnmatchedBuildLoop(_, _, _, _, _)
OutputUnmatchedBuildLoop(p, it, room, out, visits) ==
    IF room = 0 \/ AtEnd(p, it)
    THEN [partition |-> p, it |-> it, out |-> out, visits |-> visits]
    ELSE IF ~IsMatched(p, it)
    THEN LET build_row == p.build_rows[it]
             q == [p EXCEPT !.matched = @ \cup {build_row}]
         IN OutputUnmatchedBuildLoop(q, NextUnmatched(q, it), IF UnmatchedConjunct(build_row) THEN room - 1 ELSE room, IF UnmatchedConjunct(build_row) THEN out (+) SetToBag({<<0, build_row>>}) ELSE out, [visits EXCEPT ![build_row] = @ + 1])
    ELSE OutputUnmatchedBuildLoop(p, NextUnmatched(p, it), room, out, visits)

\* One call of OutputUnmatchedBuild with an output batch that has room for
\* 1 to BatchCapacity rows: the loop, then, if the iterator is at the end, the
\* partition is closed and popped and the iterator moves to the first
\* unmatched entry of the next partition.
JoinOutputUnmatchedBuildBatch ==
    /\ join_pc = "unmatched"
    /\ \E room \in 1..BatchCapacity :
         LET r == OutputUnmatchedBuildLoop(Head(output_build_partitions_), hash_tbl_iterator_, room, join_output, unmatched_visits)
             rest == Tail(output_build_partitions_)
         IN /\ join_output' = r.out
            /\ unmatched_visits' = r.visits
            /\ IF AtEnd(r.partition, r.it)
               THEN /\ output_build_partitions_' = rest
                    /\ hash_tbl_iterator_' = IF rest # <<>> THEN FirstUnmatched(Head(rest)) ELSE r.it
                    /\ join_pc' = IF rest = <<>> THEN "next" ELSE "unmatched"
               ELSE /\ output_build_partitions_' = <<r.partition>> \o rest
                    /\ hash_tbl_iterator_' = r.it
                    /\ UNCHANGED join_pc
    /\ UNCHANGED <<seedVars, htVars, eosVars, varLenVars, aggVars, runtimeVars, naajVars, resizeVars, cleanupVars, appendVars, expandVars, statusVars, hashTblsVars,
                   unmatched_at_probe_end, state_, join_op_, build_input, probe_input,
                   build_rows_read, probe_rows_read, join_hash_partitions_,
                   join_spilled_partitions_, input_partition_, join_status,
                   join_num_spilled_partitions_, join_num_repartitions_>>

\* The query is cancelled while an operator is in use: is_cancelled_ is set.
Cancel ==
    /\ ~is_cancelled_
    /\ \/ agg_pc \in {"new", "open", "streaming", "getnext", "repartition"}
       \/ join_pc \in {"new", "build", "reserve", "probe", "unmatched", "next"}
    /\ is_cancelled_' = TRUE
    /\ UNCHANGED <<seedVars, htVars, auxVars, aggVars, joinVars, batches_since_cancel, num_resets, destroyed_open>>

\* RETURN_IF_CANCELLED of the aggregation: at the head of each iteration of
\* Open's loop and of GetRowsStreaming's loop, and on entry to GetNext.
AggReturnIfCancelled ==
    /\ is_cancelled_
    /\ \/ agg_pc \in {"open", "streaming"} /\ (child_rows_read < Len(agg_input) \/ child_rows_read = 0)
       \/ agg_pc = "getnext"
    /\ agg_status' = "CANCELLED"
    /\ agg_pc' = "error"
    /\ UNCHANGED <<seedVars, htVars, auxVars, joinVars, runtimeVars, is_streaming_preagg_, agg_input,
                   child_rows_read, hash_partitions_, aggregated_partitions_,
                   spilled_partitions_, output_partition_, output_iterator_,
                   repartition_pos, agg_output, num_spilled_partitions_, num_repartitions_>>

\* RETURN_IF_CANCELLED of the join: at the head of each iteration of
\* ProcessBuildInput's loop and of GetNext's loop.
JoinReturnIfCancelled ==
    /\ is_cancelled_
    /\ \/ join_pc = "build" /\ (build_rows_read < Len(BuildSource) \/ build_rows_read = 0)
       \/ join_pc = "probe" /\ (probe_rows_read < Len(ProbeSource) \/ probe_rows_read = 0)
       \/ join_pc \in {"unmatched", "null_aware", "null_probe"}
    /\ join_status' = "CANCELLED"
    /\ join_pc' = "error"
    /\ UNCHANGED <<seedVars, htVars, auxVars, aggVars, runtimeVars, naajVars, state_, join_op_, build_input,
                   probe_input, build_rows_read, probe_rows_read, join_hash_partitions_,
                   join_spilled_partitions_, input_partition_, output_build_partitions_,
                   join_output, join_num_spilled_partitions_, join_num_repartitions_>>

\* The partitions of the aggregation's partition_pool_ that are not closed
\* once ClosePartitions has closed those of hash_partitions_,
\* aggregated_partitions_ and spilled_partitions_: the output partition, which
\* NextPartition took off aggregated_partitions_.
AggOpenAfterClosePartitions == IF output_partition_ # <<>> /\ ~output_partition_[1].is_closed THEN 1 ELSE 0

\* Reset of a grouping aggregation between two calls: ClosePartitions, whose
\* partition_pool_->Clear() destroys every partition, then
\* CreateHashPartitions(0); the child is reset and Open runs again.
\* output_partition_ and output_iterator_ are left as they are.  Destroying a
\* partition that is not closed fails the DCHECK of ~Partition (aborts), or,
\* in a build without DCHECKs, leaves output_partition_ dangling.
AggReset ==
    /\ agg_pc \in {"getnext", "eos", "error"}
    /\ ~is_streaming_preagg_
    /\ num_resets < MaxResets
    /\ num_resets' = num_resets + 1
    /\ destroyed_open' = destroyed_open + AggOpenAfterClosePartitions
    /\ cleanups' = CleanupHashTbl(cleanups, ClosePartitionsTuples)
    /\ \E aborts \in BOOLEAN, init_failed \in SUBSET (1..Fanout) :
         /\ aborts => AggOpenAfterClosePartitions > 0 /\ init_failed = {}
         /\ IF aborts
            THEN /\ agg_pc' = "aborted"
                 /\ hash_tbls_' = NoHashTbls
                 /\ UNCHANGED <<child_rows_read, hash_partitions_, aggregated_partitions_,
                                spilled_partitions_, agg_output, agg_status,
                                num_spilled_partitions_>>
            ELSE LET r == CreateHashPartitions(0, init_failed, is_streaming_preagg_)
                 IN /\ agg_status' = r.status
                    /\ hash_partitions_' = r.partitions
                    /\ hash_tbls_' = IF r.partitions = <<>> THEN NoHashTbls ELSE HashTblsOf(r.partitions)
                    /\ num_spilled_partitions_' = num_spilled_partitions_ + r.spills
                    /\ agg_pc' = IF r.status # "OK" THEN "error" ELSE "open"
                    /\ aggregated_partitions_' = <<>>
                    /\ spilled_partitions_' = <<>>
                    /\ child_rows_read' = 0
                    /\ agg_output' = <<>>
    /\ UNCHANGED <<seedVars, htVars, auxVarsExceptCleanups, join_hash_tbls_, joinVars, is_cancelled_, batches_since_cancel,
                   is_streaming_preagg_, agg_input, output_partition_, output_iterator_,
                   repartition_pos, num_repartitions_>>

\* Close of the aggregation between two calls: CleanupHashTbl runs from
\* output_iterator_ on and the output partition is closed, then
\* ClosePartitions closes and destroys every partition.
AggClose ==
    /\ agg_pc \in {"streaming", "getnext", "eos", "error"}
    /\ output_partition_' = <<>>
    /\ hash_partitions_' = <<>>
    /\ aggregated_partitions_' = <<>>
    /\ spilled_partitions_' = <<>>
    /\ hash_tbls_' = NoHashTbls
    /\ agg_pc' = "closed"
    /\ cleanups' = CleanupHashTbl(cleanups, ClosePartitionsTuples \cup (IF output_partition_ = <<>> THEN {} ELSE TuplesFrom(output_partition_[1], output_iterator_)))
    /\ UNCHANGED <<seedVars, htVars, auxVarsExceptCleanups, join_hash_tbls_, joinVars, runtimeVars, is_streaming_preagg_, agg_input,
                   child_rows_read, output_iterator_, repartition_pos, agg_output,
                   agg_status, num_spilled_partitions_, num_repartitions_>>

\* ClosePartitions of the join: every partition of hash_partitions_,
\* spilled_partitions_ and output_build_partitions_, input_partition_ and
\* null_aware_partition_ are closed, null_probe_rows_ is deleted, and
\* partition_pool_->Clear() destroys the partitions.
JoinClosePartitions ==
    /\ join_hash_partitions_' = <<>>
    /\ join_spilled_partitions_' = <<>>
    /\ output_build_partitions_' = <<>>
    /\ input_partition_' = <<>>
    /\ null_aware_partition_' = <<>>
    /\ null_probe_rows_' = <<>>

\* Reset of the join between two calls; the children are reset and Open runs
\* again.
JoinReset ==
    /\ join_pc \in {"probe", "unmatched", "next", "eos", "error"}
    /\ num_resets < MaxResets
    /\ num_resets' = num_resets + 1
    /\ matched_null_probe_' = <<>>
    /\ state_' = "PARTITIONING_BUILD"
    /\ JoinClosePartitions
    /\ join_pc' = "new"
    /\ build_rows_read' = 0
    /\ probe_rows_read' = 0
    /\ join_output' = EmptyBag
    /\ join_status' = "OK"
    /\ join_hash_tbls_' = NoHashTbls
    /\ UNCHANGED <<seedVars, htVars, auxVarsExceptHashTbls, hash_tbls_, aggVars, is_cancelled_, batches_since_cancel, destroyed_open,
                   join_op_, build_input, probe_input, join_num_spilled_partitions_,
                   join_num_repartitions_>>

\* Close of the join between two calls.
JoinClose ==
    /\ join_pc \in {"probe", "unmatched", "next", "eos", "error"}
    /\ JoinClosePartitions
    /\ join_pc' = "closed"
    /\ UNCHANGED <<seedVars, htVars, auxVars, aggVars, runtimeVars, matched_null_probe_, state_, join_op_,
                   build_input, probe_input, build_rows_read, probe_rows_read, join_output,
                   join_status, join_num_spilled_partitions_, join_num_repartitions_>>

\* ------------------------------------------------------------------------
\* Specifications
\* ------------------------------------------------------------------------

ResizeIdle == resize_i = 0 /\ resize_num_rows = 0

\* An aggregation whose functions have neither a Finalize nor a Serialize.
CleanupIdle == needs_finalize_ = FALSE /\ needs_serialize_ = FALSE /\ cleanups = NoCleanups

AppendIdle == append_idx = 0 /\ using_small_buffers = FALSE

UnmatchedIdle == hash_tbl_iterator_ = 0 /\ unmatched_at_probe_end = {} /\ unmatched_visits = <<>>

NoExpandArgs == [ht_mem |-> 0, ht_rows |-> 0, input_rows |-> 0, num_rows_returned |-> 0, estimated_input_cardinality |-> 0]

ExpandIdle == expand_pc = "idle" /\ expand_args = NoExpandArgs /\ should_expand = FALSE

StatusIdle == sub_step_status = "OK"

\* No GetNextInternal under test: the flags as the constructor leaves them.
EosIdle ==
    /\ eos_pc = "idle"
    /\ grouping_expr_ctxs_empty = FALSE
    /\ limit_ = -1
    /\ num_rows_returned_ = 0
    /\ singleton_output_tuple_returned_ = TRUE
    /\ child_eos_ = FALSE
    /\ partition_eos_ = FALSE
    /\ child_rows_left = 0
    /\ output_rows_left = 0
    /\ eos = FALSE
    /\ row_batch_num_rows = 0
    /\ get_next_calls = 0
    /\ singleton_rows_returned = 0

\* No row is being hashed.
VarLenIdle ==
    /\ hash_pc = "idle"
    /\ level_ = 0
    /\ build_expr_types = <<>>
    /\ ctx_stores_nulls = FALSE
    /\ hash_build_row = <<>>
    /\ hash_probe_row = <<>>
    /\ cur_expr_values_ = <<>>
    /\ cur_expr_values_null_ = <<>>
    /\ build_row_hash = 0
    /\ probe_row_hash = 0
    /\ equals_result = FALSE

\* The hash_tbls_ arrays after the memset of the constructor, of Reset and of
\* ClosePartitions: every entry NULL.
HashTblsIdle == hash_tbls_ = NoHashTbls /\ join_hash_tbls_ = NoHashTbls

AuxIdleExceptHashTbls == ResizeIdle /\ CleanupIdle /\ AppendIdle /\ UnmatchedIdle /\ ExpandIdle /\ StatusIdle /\ EosIdle /\ VarLenIdle

AuxIdle == AuxIdleExceptHashTbls /\ HashTblsIdle

RuntimeIdle == is_cancelled_ = FALSE /\ batches_since_cancel = 0 /\ num_resets = 0 /\ destroyed_open = 0

SeedsIdle == initial_seed = ZeroU32 /\ seeds_ = <<>>

\* No HashTableCtx / HashTable under test.
HtIdle ==
    /\ stores_nulls_ = TRUE
    /\ finds_nulls_ = [i \in 1..NumExprs |-> TRUE]
    /\ cache = EmptyCache
    /\ capacity_ = 0
    /\ scratch_row_ = "NULL"
    /\ tracker_ = 0
    /\ ctx_closes = 0
    /\ ht_pc = "idle"
    /\ stores_duplicates_ = FALSE
    /\ quadratic_probing_ = FALSE
    /\ max_num_buckets_ = -1
    /\ num_buckets_ = 0
    /\ buckets_ = <<>>
    /\ num_filled_buckets_ = 0
    /\ num_buckets_with_duplicates_ = 0
    /\ num_duplicate_nodes_ = 0
    /\ nodes_ = <<>>
    /\ data_pages_ = 0
    /\ node_remaining_current_page_ = 0
    /\ has_matches_ = FALSE
    /\ num_resizes_ = 0
    /\ block_mgr_mem = 0
    /\ buckets_freed = 0
    /\ ht_closes = 0
    /\ tuple_stream_ = <<>>
    /\ last_op = [op |-> "none", ok |-> TRUE]

\* No PartitionedAggregationNode under test.
AggIdle ==
    /\ agg_pc = "idle"
    /\ is_streaming_preagg_ = FALSE
    /\ agg_input = <<>>
    /\ child_rows_read = 0
    /\ hash_partitions_ = <<>>
    /\ aggregated_partitions_ = <<>>
    /\ spilled_partitions_ = <<>>
    /\ output_partition_ = <<>>
    /\ output_iterator_ = 1
    /\ repartition_pos = 0
    /\ agg_output = <<>>
    /\ agg_status = "OK"
    /\ num_spilled_partitions_ = 0
    /\ num_repartitions_ = 0

\* No PartitionedHashJoinNode under test.
JoinIdle ==
    /\ join_pc = "idle"
    /\ state_ = "PARTITIONING_BUILD"
    /\ join_op_ = "INNER_JOIN"
    /\ build_input = <<>>
    /\ probe_input = <<>>
    /\ build_rows_read = 0
    /\ probe_rows_read = 0
    /\ join_hash_partitions_ = <<>>
    /\ join_spilled_partitions_ = <<>>
    /\ input_partition_ = <<>>
    /\ output_build_partitions_ = <<>>
    /\ join_output = EmptyBag
    /\ join_status = "OK"
    /\ join_num_spilled_partitions_ = 0
    /\ join_num_repartitions_ = 0
    /\ null_aware_partition_ = <<>>
    /\ null_probe_rows_ = <<>>
    /\ matched_null_probe_ = <<>>

vars == <<seedVars, htVars, opVars>>

\* The seed computation of the HashTableCtx constructor.
InitSeeds ==
    /\ RuntimeIdle
    /\ AuxIdle
    /\ initial_seed \in InitialSeeds
    /\ seeds_ = <<>>
    /\ HtIdle
    /\ AggIdle
    /\ JoinIdle

NextSeeds == CtxSetInitialSeed \/ CtxComputeSeed

SpecSeeds == InitSeeds /\ [][NextSeeds]_vars

\* The finds_nulls vectors tried: no key, every key but the first, every key
\* compared with IS NOT DISTINCT FROM.
FindsNullsConfigs == {[i \in 1..NumExprs |-> i > k] : k \in {0, 1, NumExprs}}

\* One HashTableCtx after HashTableCtx::Create (its ExprValuesCache::Init
\* succeeded, or failed leaving capacity_ = 0) and one HashTable after its
\* constructor, for every configuration.
InitHT ==
    /\ RuntimeIdle
    /\ AuxIdle
    /\ SeedsIdle
    /\ AggIdle
    /\ JoinIdle
    /\ stores_nulls_ \in BOOLEAN
    /\ finds_nulls_ \in FindsNullsConfigs
    /\ stores_nulls_ \/ finds_nulls_ = [i \in 1..NumExprs |-> FALSE]
    /\ cache = EmptyCache
    /\ capacity_ \in {0, CacheCapacity}
    /\ scratch_row_ = "alloc"
    /\ tracker_ = IF capacity_ = 0 THEN 0 ELSE MemUsage(capacity_)
    /\ ctx_closes = 0
    /\ ht_pc = "new"
    /\ stores_duplicates_ \in BOOLEAN
    /\ stores_duplicates_ \/ (stores_nulls_ /\ finds_nulls_ = [i \in 1..NumExprs |-> TRUE])
    /\ quadratic_probing_ \in BOOLEAN
    /\ max_num_buckets_ = 2 ^ MaxBucketsLog
    /\ num_buckets_ \in {2 ^ k : k \in InitialBucketsLog..MaxBucketsLog}
    /\ buckets_ = <<>>
    /\ num_filled_buckets_ = 0
    /\ num_buckets_with_duplicates_ = 0
    /\ num_duplicate_nodes_ = 0
    /\ nodes_ = <<>>
    /\ data_pages_ = 0
    /\ node_remaining_current_page_ = 0
    /\ has_matches_ = FALSE
    /\ num_resizes_ = 0
    /\ block_mgr_mem = 0
    /\ buckets_freed = 0
    /\ ht_closes = 0
    /\ tuple_stream_ = <<>>
    /\ last_op = [op |-> "none", ok |-> TRUE]

NextHT ==
    \/ HtInit
    \/ HtInsert
    \/ HtFindProbeRow
    \/ HtOutputUnmatchedBuild
    \/ HtCheckAndResize

SpecHT == InitHT /\ [][NextHT]_vars

\* Tear-down: the table of an aggregation partition (NULLs stored and found, no
\* duplicates) in use, then closed; Close may be called again.
InitClose ==
    /\ InitHT
    /\ stores_nulls_
    /\ finds_nulls_ = [i \in 1..NumExprs |-> TRUE]
    /\ ~stores_duplicates_

NextClose ==
    \/ HtInit
    \/ HtInsert
    \/ HtCheckAndResize
    \/ HtClose
    \/ CtxClose

SpecClose == InitClose /\ [][NextClose]_vars

\* A PartitionedAggregationNode after its constructor, grouping or streaming
\* pre-aggregation, over every child input.
InitAgg ==
    /\ RuntimeIdle
    /\ AuxIdle
    /\ SeedsIdle
    /\ HtIdle
    /\ JoinIdle
    /\ agg_pc = "new"
    /\ is_streaming_preagg_ \in BOOLEAN
    /\ agg_input \in AggInputs
    /\ child_rows_read = 0
    /\ hash_partitions_ = <<>>
    /\ aggregated_partitions_ = <<>>
    /\ spilled_partitions_ = <<>>
    /\ output_partition_ = <<>>
    /\ output_iterator_ = 1
    /\ repartition_pos = 0
    /\ agg_output = <<>>
    /\ agg_status = "OK"
    /\ num_spilled_partitions_ = 0
    /\ num_repartitions_ = 0

NextAgg ==
    \/ AggPrepare
    \/ AggProcessBatch
    \/ AggSpillPartition
    \/ AggOpenEos
    \/ AggGetRowsFromPartition
    \/ AggProcessStream
    \/ AggRepartitionDone
    \/ AggGetRowsStreaming
    \/ AggStreamingEos

SpecAgg == InitAgg /\ [][NextAgg]_vars

\* A PartitionedHashJoinNode after its constructor, for every join op and
\* every build and probe input.
InitJoin ==
    /\ RuntimeIdle
    /\ AuxIdle
    /\ SeedsIdle
    /\ HtIdle
    /\ AggIdle
    /\ join_pc = "new"
    /\ state_ = "PARTITIONING_BUILD"
    /\ join_op_ \in JoinOps
    /\ build_input \in BuildInputs
    /\ probe_input \in ProbeInputs
    /\ build_rows_read = 0
    /\ probe_rows_read = 0
    /\ join_hash_partitions_ = <<>>
    /\ join_spilled_partitions_ = <<>>
    /\ input_partition_ = <<>>
    /\ output_build_partitions_ = <<>>
    /\ join_output = EmptyBag
    /\ join_status = "OK"
    /\ join_num_spilled_partitions_ = 0
    /\ join_num_repartitions_ = 0
    /\ null_aware_partition_ = <<>>
    /\ null_probe_rows_ = <<>>
    /\ matched_null_probe_ = <<>>

NextJoin ==
    \/ JoinConstructBuildSide
    \/ JoinProcessBuildBatch
    \/ JoinSpillPartition
    \/ JoinBuildHashTables
    \/ JoinBuildDone
    \/ JoinProcessProbeBatch
    \/ JoinCleanUpHashPartitions
    \/ JoinOutputUnmatchedBuild
    \/ JoinPrepareNextPartition

SpecJoin == InitJoin /\ [][NextJoin]_vars

\* Skewed join inputs: every key falls into the first partition at level 0
\* and the keys spread over the partitions at level 1.
SkewedBuildLen == 4
SkewedProbeLen == 2

SkewedKeys == {k * Fanout : k \in 0..(Fanout - 1)}

\* SpillPartition of either operator: an aggregation node as in InitAgg, or a
\* right outer or inner join node after its constructor over skewed inputs,
\* so that the repartitioned first partition has children of different sizes.
InitSpill ==
    \/ InitAgg
    \/ /\ RuntimeIdle
       /\ AuxIdle
       /\ SeedsIdle
       /\ HtIdle
       /\ AggIdle
       /\ join_pc = "new"
       /\ state_ = "PARTITIONING_BUILD"
       /\ join_op_ \in {"INNER_JOIN", "RIGHT_OUTER_JOIN"}
       /\ build_input \in [1..SkewedBuildLen -> SkewedKeys]
       /\ probe_input \in [1..SkewedProbeLen -> SkewedKeys]
       /\ build_rows_read = 0
       /\ probe_rows_read = 0
       /\ join_hash_partitions_ = <<>>
       /\ join_spilled_partitions_ = <<>>
       /\ input_partition_ = <<>>
       /\ output_build_partitions_ = <<>>
       /\ join_output = EmptyBag
       /\ join_status = "OK"
       /\ join_num_spilled_partitions_ = 0
       /\ join_num_repartitions_ = 0
       /\ null_aware_partition_ = <<>>
       /\ null_probe_rows_ = <<>>
       /\ matched_null_probe_ = <<>>

NextSpill == NextAgg \/ NextJoin

\* A null-aware left anti join node after its constructor, with NULL keys in
\* its inputs and one other join conjunct.
InitNaaj ==
    /\ RuntimeIdle
    /\ AuxIdle
    /\ SeedsIdle
    /\ HtIdle
    /\ AggIdle
    /\ join_pc = "new"
    /\ state_ = "PARTITIONING_BUILD"
    /\ join_op_ = "NULL_AWARE_LEFT_ANTI_JOIN"
    /\ build_input \in UNION {[1..n -> JoinKeys \cup {NullPtr}] : n \in 0..MaxBuild}
    /\ probe_input \in UNION {[1..n -> JoinKeys \cup {NullPtr}] : n \in 0..MaxProbe}
    /\ build_rows_read = 0
    /\ probe_rows_read = 0
    /\ join_hash_partitions_ = <<>>
    /\ join_spilled_partitions_ = <<>>
    /\ input_partition_ = <<>>
    /\ output_build_partitions_ = <<>>
    /\ join_output = EmptyBag
    /\ join_status = "OK"
    /\ join_num_spilled_partitions_ = 0
    /\ join_num_repartitions_ = 0
    /\ null_aware_partition_ = <<>>
    /\ null_probe_rows_ = <<>>
    /\ matched_null_probe_ = <<>>

NextNaaj ==
    \/ JoinConstructBuildSide
    \/ JoinProcessBuildBatch
    \/ JoinSpillPartition
    \/ JoinBuildHashTables
    \/ JoinBuildDone
    \/ JoinProcessProbeBatchNullAware
    \/ JoinCleanUpHashPartitions
    \/ JoinPrepareNextPartition
    \/ JoinPrepareNullAwarePartition
    \/ JoinOutputNullAwareProbeRows
    \/ JoinOutputNullAwareNullProbe

SpecNaaj == InitNaaj /\ [][NextNaaj]_vars

SpecSpill == InitSpill /\ [][NextSpill]_vars

\* A non-streaming aggregation about to run CheckAndResizeHashPartitions: each
\* partition is spilled, or has a hash table of a power-of-two size filled
\* within the fill factor.
ResizePartitions ==
    {SpilledPartition} \cup
    {ResidentPartition(2 ^ k, filled) : <<k, filled>> \in {kf \in (InitialBucketsLog..MaxBucketsLog) \X (0..MaxRows) : ~ExceedsFillFactor(kf[2], 2 ^ kf[1])}}

InitResize ==
    /\ RuntimeIdle
    /\ ExpandIdle
    /\ StatusIdle
    /\ EosIdle /\ VarLenIdle
    /\ SeedsIdle
    /\ HtIdle
    /\ JoinIdle
    /\ agg_pc = "resize"
    /\ is_streaming_preagg_ = FALSE
    /\ agg_input = <<>>
    /\ child_rows_read = 0
    /\ hash_partitions_ \in [1..Fanout -> ResizePartitions]
    /\ hash_tbls_ = HashTblsOf(hash_partitions_)
    /\ join_hash_tbls_ = NoHashTbls
    /\ aggregated_partitions_ = <<>>
    /\ spilled_partitions_ = <<>>
    /\ output_partition_ = <<>>
    /\ output_iterator_ = 1
    /\ repartition_pos = 0
    /\ agg_output = <<>>
    /\ agg_status = "OK"
    /\ num_spilled_partitions_ = 0
    /\ num_repartitions_ = 0
    /\ resize_i = 1
    /\ resize_num_rows \in 0..MaxBucketsToFill
    /\ CleanupIdle
    /\ AppendIdle
    /\ UnmatchedIdle

NextResize == AggCheckAndResizeHashPartitions

\* The call is not abandoned: it runs on while it can.
SpecResize == InitResize /\ [][NextResize]_vars /\ WF_vars(NextResize)

\* The grouping keys that level 0 routes to partition i.
KeysOf(i) == {k \in Keys : PartitionIdx(k, 0) = i}

\* The groups of a set of keys, in the order they were added.
RECURSIVE GroupsOf(_)
GroupsOf(S) == IF S = {} THEN <<>> ELSE LET k == CHOOSE x \in S : \A y \in S : x <= y IN <<[key |-> k, cnt |-> 1]>> \o GroupsOf(S \ {k})

\* The states of partition i while Open reads its input: resident with some
\* groups, or spilled with some groups and at most one row spooled.
OpenPartitions(i) ==
    {[NewPartition(0) EXCEPT !.aggregated_row_stream = GroupsOf(S)] : S \in SUBSET KeysOf(i)} \cup
    {[PartitionSpill(NewPartition(0)) EXCEPT !.aggregated_row_stream = GroupsOf(S), !.unaggregated_row_stream = u] : S \in SUBSET KeysOf(i), u \in {<<>>} \cup {<<k>> : k \in KeysOf(i)}}

\* ProcessRow has routed the next row of the input to a spilled partition and
\* calls AppendSpilledRow on its unaggregated stream.
InitAppend ==
    /\ RuntimeIdle
    /\ ExpandIdle
    /\ StatusIdle
    /\ EosIdle /\ VarLenIdle
    /\ ResizeIdle
    /\ CleanupIdle
    /\ UnmatchedIdle
    /\ SeedsIdle
    /\ HtIdle
    /\ JoinIdle
    /\ agg_pc = "append"
    /\ is_streaming_preagg_ = FALSE
    /\ agg_input \in [1..1 -> Keys]
    /\ child_rows_read = 0
    /\ hash_partitions_ \in {parts \in [1..Fanout -> UNION {OpenPartitions(i) : i \in 1..Fanout}] : \A i \in 1..Fanout : parts[i] \in OpenPartitions(i)}
    /\ hash_tbls_ = HashTblsOf(hash_partitions_)
    /\ join_hash_tbls_ = NoHashTbls
    /\ append_idx = PartitionIdx(agg_input[1], 0)
    /\ IsSpilled(hash_partitions_[append_idx])
    /\ using_small_buffers \in BOOLEAN
    /\ aggregated_partitions_ = <<>>
    /\ spilled_partitions_ = <<>>
    /\ output_partition_ = <<>>
    /\ output_iterator_ = 1
    /\ repartition_pos = 0
    /\ agg_output = <<>>
    /\ agg_status = "OK"
    /\ num_spilled_partitions_ = 0
    /\ num_repartitions_ = 0

NextAppend ==
    \/ AggAppendSpilledRow
    \/ AggAppendSpilledRowSwitchToIoBuffers

\* The call is not abandoned: it runs on while it can.
SpecAppend == InitAppend /\ [][NextAppend]_vars /\ WF_vars(NextAppend)

\* Build rows of the partitions that output their unmatched rows.
UnmatchedBuildLen == 4

\* A partition whose probe has ended: its hash table holds the build rows
\* `rows`, those of `matched` with the matched bit set.
ProbedPartition(rows, matched) ==
    [JoinPartitionBuilt(JoinNewPartition(0)) EXCEPT !.build_rows = rows, !.matched = matched]

\* CleanUpHashPartitions has queued one or two resident partitions of a right
\* outer, right anti or full outer join in output_build_partitions_ and set
\* hash_tbl_iterator_ to the first unmatched entry of the first.
InitUnmatched ==
    /\ RuntimeIdle
    /\ ExpandIdle
    /\ StatusIdle
    /\ EosIdle /\ VarLenIdle
    /\ HashTblsIdle
    /\ ResizeIdle
    /\ CleanupIdle
    /\ AppendIdle
    /\ SeedsIdle
    /\ HtIdle
    /\ AggIdle
    /\ join_pc = "unmatched"
    /\ state_ = "PROCESSING_PROBE"
    /\ join_op_ \in {op \in JoinOps : OutputsUnmatchedBuild(op)}
    /\ \E split \in 1..UnmatchedBuildLen, matched \in SUBSET (1..UnmatchedBuildLen) :
         /\ build_input = [i \in 1..UnmatchedBuildLen |-> IF i <= split THEN 0 ELSE 1]
         /\ output_build_partitions_ =
               <<ProbedPartition([i \in 1..split |-> i], matched \cap (1..split))>> \o
               (IF split = UnmatchedBuildLen THEN <<>>
                ELSE <<ProbedPartition([i \in 1..(UnmatchedBuildLen - split) |-> split + i], matched \ (1..split))>>)
         /\ unmatched_at_probe_end = (1..UnmatchedBuildLen) \ matched
    /\ hash_tbl_iterator_ = FirstUnmatched(Head(output_build_partitions_))
    /\ unmatched_visits = [b \in 1..UnmatchedBuildLen |-> 0]
    /\ probe_input = <<>>
    /\ build_rows_read = UnmatchedBuildLen
    /\ probe_rows_read = 0
    /\ join_hash_partitions_ = <<>>
    /\ join_spilled_partitions_ = <<>>
    /\ input_partition_ = <<>>
    /\ join_output = EmptyBag
    /\ join_status = "OK"
    /\ join_num_spilled_partitions_ = 0
    /\ join_num_repartitions_ = 0
    /\ null_aware_partition_ = <<>>
    /\ null_probe_rows_ = <<>>
    /\ matched_null_probe_ = <<>>

NextUnmatchedBuild == JoinOutputUnmatchedBuildBatch

SpecUnmatched == InitUnmatched /\ [][NextUnmatchedBuild]_vars

\* ------------------------------------------------------------------------
\* PartitionedAggregationNode::ShouldExpandPreaggHashTables.  A double is
\* modelled by the exact ratio [num, den] with den > 0; on the inputs drawn
\* here every quotient and product is far from the precision of a double.
Rat(num, den) == [num |-> num, den |-> den]

RatAdd(a, b) == Rat(a.num * b.den + b.num * a.den, a.den * b.den)

RatSub(a, b) == Rat(a.num * b.den - b.num * a.den, a.den * b.den)

RatMul(a, b) == Rat(a.num * b.num, a.den * b.den)

RatGreater(a, b) == a.num * b.den > b.num * a.den

\* STREAMING_HT_MIN_REDUCTION: {min_ht_mem, streaming_ht_min_reduction}.
STREAMING_HT_MIN_REDUCTION == <<[min_ht_mem |-> 0, streaming_ht_min_reduction |-> Rat(0, 1)], [min_ht_mem |-> 256 * 1024, streaming_ht_min_reduction |-> Rat(11, 10)], [min_ht_mem |-> 2 * 1024 * 1024, streaming_ht_min_reduction |-> Rat(2, 1)]>>

STREAMING_HT_MIN_REDUCTION_SIZE == Len(STREAMING_HT_MIN_REDUCTION)

\* The while loop of lines 596-600; the table is indexed from 1 here.
RECURSIVE CacheLevel(_, _)
CacheLevel(ht_mem, cache_level) ==
    IF cache_level + 1 <= STREAMING_HT_MIN_REDUCTION_SIZE /\ ht_mem >= STREAMING_HT_MIN_REDUCTION[cache_level + 1].min_ht_mem
    THEN CacheLevel(ht_mem, cache_level + 1)
    ELSE cache_level

\* The quotient of two int64_t, both positive where the function divides.
Int64Div(a, b) == a \div b

\* a.ht_mem and a.ht_rows are the sums over the hash partitions (lines
\* 584-590), a.input_rows is children_[0]->rows_returned().
ShouldExpandPreaggHashTables(a) ==
    IF a.ht_rows = 0 THEN TRUE
    ELSE LET cache_level == CacheLevel(a.ht_mem, 1)
             aggregated_input_rows == a.input_rows - a.num_rows_returned
             expected_input_rows == a.estimated_input_cardinality - a.num_rows_returned
             current_reduction == Rat(aggregated_input_rows, a.ht_rows)
         IN IF aggregated_input_rows <= 0 THEN TRUE
            ELSE LET estimated_reduction ==
                         IF aggregated_input_rows >= expected_input_rows
                         THEN current_reduction
                         ELSE RatAdd(Rat(1, 1), RatMul(Rat(Int64Div(expected_input_rows, aggregated_input_rows), 1), RatSub(current_reduction, Rat(1, 1))))
                     min_reduction == STREAMING_HT_MIN_REDUCTION[cache_level].streaming_ht_min_reduction
                 IN RatGreater(estimated_reduction, min_reduction)

\* GetRowsStreaming asks whether to expand the hash tables (line 548).
AggShouldExpandPreaggHashTables ==
    /\ expand_pc = "call"
    /\ should_expand' = ShouldExpandPreaggHashTables(expand_args)
    /\ expand_pc' = "returned"
    /\ UNCHANGED <<seedVars, htVars, eosVars, varLenVars, aggVars, joinVars, runtimeVars, resizeVars, cleanupVars, appendVars, unmatchedVars, statusVars, hashTblsVars, expand_args>>

MaxInputRows == 3

MaxCardinality == 4

\* Total bytes of the bucket arrays: multiples of the bucket size on both
\* sides of the two thresholds of the table.
HtMemSizes == {4096, 256 * 1024 - 16, 256 * 1024, 2 * 1024 * 1024 - 16, 2 * 1024 * 1024}

\* A streaming pre-aggregation in GetRowsStreaming: the child has returned
\* input_rows rows, num_rows_returned_ of them were passed through, the
\* others were inserted or merged into the ht_rows entries of the tables;
\* estimated_input_cardinality_ is the planner's estimate, -1 if it has none.
InitExpand ==
    /\ RuntimeIdle
    /\ StatusIdle
    /\ EosIdle /\ VarLenIdle
    /\ HashTblsIdle
    /\ ResizeIdle
    /\ CleanupIdle
    /\ AppendIdle
    /\ UnmatchedIdle
    /\ SeedsIdle
    /\ HtIdle
    /\ AggIdle
    /\ JoinIdle
    /\ expand_pc = "call"
    /\ should_expand = FALSE
    /\ \E ht_mem \in HtMemSizes, input_rows \in 0..MaxInputRows, estimated_input_cardinality \in (-1)..MaxCardinality :
         \E num_rows_returned \in 0..input_rows :
           \E ht_rows \in 0..(input_rows - num_rows_returned) :
             expand_args = [ht_mem |-> ht_mem, ht_rows |-> ht_rows, input_rows |-> input_rows, num_rows_returned |-> num_rows_returned, estimated_input_cardinality |-> estimated_input_cardinality]

NextExpand == AggShouldExpandPreaggHashTables

SpecExpand == InitExpand /\ [][NextExpand]_vars


\* An aggregation whose functions need Finalize, Serialize or both, after
\* its constructor, for every input.
InitCleanup ==
    /\ RuntimeIdle
    /\ ExpandIdle
    /\ StatusIdle
    /\ EosIdle /\ VarLenIdle
    /\ HashTblsIdle
    /\ ResizeIdle
    /\ AppendIdle
    /\ UnmatchedIdle
    /\ SeedsIdle
    /\ HtIdle
    /\ JoinIdle
    /\ needs_finalize_ \in BOOLEAN
    /\ needs_serialize_ \in BOOLEAN
    /\ needs_finalize_ \/ needs_serialize_
    /\ cleanups = NoCleanups
    /\ agg_pc = "new"
    /\ is_streaming_preagg_ \in BOOLEAN
    /\ agg_input \in AggInputs
    /\ child_rows_read = 0
    /\ hash_partitions_ = <<>>
    /\ aggregated_partitions_ = <<>>
    /\ spilled_partitions_ = <<>>
    /\ output_partition_ = <<>>
    /\ output_iterator_ = 1
    /\ repartition_pos = 0
    /\ agg_output = <<>>
    /\ agg_status = "OK"
    /\ num_spilled_partitions_ = 0
    /\ num_repartitions_ = 0

\* The aggregation's calls, and Close between any two of them.
NextCleanup ==
    \/ NextAgg
    \/ AggClose

SpecCleanup == InitCleanup /\ [][NextCleanup]_vars

\* Either operator after its constructor, on a short input whose keys fall
\* into one level-0 partition.
LifecycleInputLen == 3

LifecycleKeys == {0, Fanout}

InitLifecycle ==
    /\ RuntimeIdle
    /\ AuxIdle
    /\ SeedsIdle
    /\ HtIdle
    /\ \/ /\ JoinIdle
          /\ agg_pc = "new"
          /\ is_streaming_preagg_ \in BOOLEAN
          /\ agg_input \in [1..LifecycleInputLen -> LifecycleKeys]
          /\ child_rows_read = 0
          /\ hash_partitions_ = <<>>
          /\ aggregated_partitions_ = <<>>
          /\ spilled_partitions_ = <<>>
          /\ output_partition_ = <<>>
          /\ output_iterator_ = 1
          /\ repartition_pos = 0
          /\ agg_output = <<>>
          /\ agg_status = "OK"
          /\ num_spilled_partitions_ = 0
          /\ num_repartitions_ = 0
       \/ /\ AggIdle
          /\ join_pc = "new"
          /\ state_ = "PARTITIONING_BUILD"
          /\ join_op_ = "RIGHT_OUTER_JOIN"
          /\ build_input \in [1..LifecycleInputLen -> LifecycleKeys]
          /\ probe_input \in [1..1 -> LifecycleKeys]
          /\ build_rows_read = 0
          /\ probe_rows_read = 0
          /\ join_hash_partitions_ = <<>>
          /\ join_spilled_partitions_ = <<>>
          /\ input_partition_ = <<>>
          /\ output_build_partitions_ = <<>>
          /\ join_output = EmptyBag
          /\ join_status = "OK"
          /\ join_num_spilled_partitions_ = 0
          /\ join_num_repartitions_ = 0
          /\ null_aware_partition_ = <<>>
          /\ null_probe_rows_ = <<>>
          /\ matched_null_probe_ = <<>>

\* The two operators while the query may be cancelled.
NextCancel ==
    \/ NextAgg
    \/ NextJoin
    \/ Cancel
    \/ AggReturnIfCancelled
    \/ JoinReturnIfCancelled

SpecCancel == InitLifecycle /\ [][NextCancel]_vars

\* The two operators under Reset and Close between their calls.
NextLifecycle ==
    \/ NextAgg
    \/ NextJoin
    \/ AggReset
    \/ AggClose
    \/ JoinReset
    \/ JoinClose

SpecLifecycle == InitLifecycle /\ [][NextLifecycle]_vars

\* ProcessProbeBatch of the null-aware left anti join appends a NULL-key
\* probe row to null_probe_rows_, a stream created on small buffers (lines
\* 247-250) that BuildHashTables never switches to IO buffers.  AddRow asks
\* for a large buffer, AppendRowStreamFull gets none from SwitchToIoBuffers
\* (got_buffer = false, line 558) and calls SpillPartition (line 567), which
\* spills a resident partition whatever the state of the join.
JoinAppendNullProbeRowStreamFull ==
    /\ ~is_cancelled_
    /\ join_pc = "probe"
    /\ join_op_ = "NULL_AWARE_LEFT_ANTI_JOIN"
    /\ probe_rows_read < Len(ProbeSource)
    /\ probe_input[ProbeSource[probe_rows_read + 1]] = NullPtr
    /\ Len(build_input) > 0
    /\ LET idx == JoinSpillPartitionIdx(join_hash_partitions_)
       IN IF idx = 0
          THEN /\ join_status' = "MEM_LIMIT_TOO_LOW"
               /\ join_pc' = "error"
               /\ UNCHANGED <<join_hash_partitions_, join_hash_tbls_, join_num_spilled_partitions_>>
          ELSE /\ join_hash_partitions_' = [join_hash_partitions_ EXCEPT ![idx] = JoinPartitionSpill(@)]
               /\ join_hash_tbls_' = HashTblsAfterSpill(join_hash_tbls_, idx)
               /\ join_num_spilled_partitions_' = join_num_spilled_partitions_ + 1
               /\ UNCHANGED <<join_status, join_pc>>
    /\ UNCHANGED <<seedVars, htVars, auxVarsExceptHashTbls, hash_tbls_, aggVars, runtimeVars, naajVars, state_, join_op_, build_input, probe_input,
                   build_rows_read, probe_rows_read, join_spilled_partitions_,
                   input_partition_, output_build_partitions_, join_output,
                   join_num_repartitions_>>

\* The null-aware left anti join when the stream of the NULL-key probe rows
\* may run out of small buffers.
NextNaajStreamFull == NextNaaj \/ JoinAppendNullProbeRowStreamFull

SpecNaajStreamFull == InitNaaj /\ [][NextNaajStreamFull]_vars

\* Keys of the first two level-0 partitions, two for each, which level 1
\* takes apart: when both partitions are spilled and the one repartitioned
\* first holds two keys, its children are queued with the other partition.
DeepKeys == {0, Fanout, 1, 1 + Fanout}

DeepInputLen == 3

InitDepthFirst ==
    /\ RuntimeIdle
    /\ AuxIdle
    /\ SeedsIdle
    /\ HtIdle
    /\ \/ /\ JoinIdle
          /\ agg_pc = "new"
          /\ is_streaming_preagg_ \in BOOLEAN
          /\ agg_input \in [1..DeepInputLen -> DeepKeys]
          /\ child_rows_read = 0
          /\ hash_partitions_ = <<>>
          /\ aggregated_partitions_ = <<>>
          /\ spilled_partitions_ = <<>>
          /\ output_partition_ = <<>>
          /\ output_iterator_ = 1
          /\ repartition_pos = 0
          /\ agg_output = <<>>
          /\ agg_status = "OK"
          /\ num_spilled_partitions_ = 0
          /\ num_repartitions_ = 0
       \/ /\ AggIdle
          /\ join_pc = "new"
          /\ state_ = "PARTITIONING_BUILD"
          /\ join_op_ \in {"INNER_JOIN", "RIGHT_OUTER_JOIN"}
          /\ build_input \in [1..DeepInputLen -> DeepKeys]
          /\ probe_input \in [1..1 -> DeepKeys]
          /\ build_rows_read = 0
          /\ probe_rows_read = 0
          /\ join_hash_partitions_ = <<>>
          /\ join_spilled_partitions_ = <<>>
          /\ input_partition_ = <<>>
          /\ output_build_partitions_ = <<>>
          /\ join_output = EmptyBag
          /\ join_status = "OK"
          /\ join_num_spilled_partitions_ = 0
          /\ join_num_repartitions_ = 0
          /\ null_aware_partition_ = <<>>
          /\ null_probe_rows_ = <<>>
          /\ matched_null_probe_ = <<>>

SpecDepthFirst == InitDepthFirst /\ [][NextSpill]_vars

\* The partitions of level 1 after ProcessBuildInput(1) over the build rows
\* of the input: partition i holds the rows whose key selects it, in input
\* order; BuildHashTables has closed the empty ones, built the hash tables of
\* the others and spilled the one at index `spilled`.
RepartitionedBuild(build, spilled) ==
    BuildHashTablesLoop([i \in 1..Fanout |-> [JoinNewPartition(1) EXCEPT !.build_rows = SelectSeq([b \in 1..Len(build) |-> b], LAMBDA b : PartitionIdx(build[b], 1) = i)]], (1..Fanout) \ {spilled})

\* A join over skewed inputs in REPARTITIONING, about to probe: the one
\* level-0 partition with rows was spilled with all the probe rows and is
\* input_partition_, its build rows were repartitioned into three level-1
\* partitions, and exactly one of them was spilled by BuildHashTables.
InitSpillInProbe ==
    /\ RuntimeIdle
    /\ AuxIdleExceptHashTbls
    /\ hash_tbls_ = NoHashTbls
    /\ SeedsIdle
    /\ HtIdle
    /\ AggIdle
    /\ join_pc = "probe"
    /\ state_ = "REPARTITIONING"
    /\ join_op_ \in {"INNER_JOIN", "RIGHT_OUTER_JOIN"}
    /\ build_input \in {b \in [1..SkewedBuildLen -> SkewedKeys] : \A k \in SkewedKeys : \E i \in 1..SkewedBuildLen : b[i] = k}
    /\ probe_input \in [1..SkewedProbeLen -> SkewedKeys]
    /\ build_rows_read = SkewedBuildLen
    /\ probe_rows_read = 0
    /\ \E spilled \in 1..Fanout : join_hash_partitions_ = RepartitionedBuild(build_input, spilled)
    /\ join_hash_tbls_ = HashTblsOf(join_hash_partitions_)
    /\ join_spilled_partitions_ = <<>>
    /\ input_partition_ = <<[JoinPartitionSpill(JoinNewPartition(0)) EXCEPT !.probe_rows = [i \in 1..SkewedProbeLen |-> i]]>>
    /\ output_build_partitions_ = <<>>
    /\ join_output = EmptyBag
    /\ join_status = "OK"
    /\ join_num_spilled_partitions_ = 2
    /\ join_num_repartitions_ = 1
    /\ null_aware_partition_ = <<>>
    /\ null_probe_rows_ = <<>>
    /\ matched_null_probe_ = <<>>

NextSpillInProbe == JoinProcessProbeBatch \/ JoinSpillPartition

SpecSpillInProbe == InitSpillInProbe /\ [][NextSpillInProbe]_vars

\* ------------------------------------------------------------------------
\* The fallible sub-steps.  SwitchToIoBuffers and UnpinStream of a stream
\* return a Status; StreamError is the error one of them returns.
StreamError == "IO_ERROR"

\* PartitionedHashJoinNode::Partition::Spill when a stream operation fails:
\* the hash table is closed already, is_spilled_ is not yet set.
JoinPartitionSpillFailed(p) == [p EXCEPT !.hash_tbl = FALSE, !.matched = {}]

\* SpillPartition (join) when Partition::Spill of the chosen partition
\* fails: RETURN_IF_ERROR at line 608, and its callers return the error.
JoinSpillPartitionFails ==
    /\ \/ join_pc = "build" /\ build_rows_read < Len(BuildSource)
       \/ join_pc = "reserve" /\ \E i \in 1..Len(join_hash_partitions_) : ~join_hash_partitions_[i].is_closed /\ join_hash_partitions_[i].is_spilled
       \/ ProbeRowAppends
    /\ LET idx == JoinSpillPartitionIdx(join_hash_partitions_)
       IN /\ idx # 0
          /\ join_hash_partitions_' = [join_hash_partitions_ EXCEPT ![idx] = JoinPartitionSpillFailed(@)]
    /\ sub_step_status' = StreamError
    /\ join_status' = StreamError
    /\ join_pc' = "error"
    /\ UNCHANGED <<seedVars, htVars, eosVars, varLenVars, aggVars, runtimeVars, naajVars, resizeVars, cleanupVars, appendVars, unmatchedVars, expandVars, hashTblsVars,
                   state_, join_op_, build_input, probe_input,
                   build_rows_read, probe_rows_read, join_spilled_partitions_,
                   input_partition_, output_build_partitions_, join_output,
                   join_num_spilled_partitions_, join_num_repartitions_>>

\* PrepareNextPartition when the hash table of the input partition was not
\* built and input_partition_->Spill(false) fails (line 848): the Status is
\* not looked at, and the function goes on to ProcessBuildInput(level + 1).
JoinPrepareNextPartitionSpillFails ==
    /\ join_pc = "next"
    /\ join_spilled_partitions_ # <<>>
    /\ sub_step_status' = StreamError
    /\ LET input == Head(join_spilled_partitions_)
       IN /\ join_spilled_partitions_' = Tail(join_spilled_partitions_)
          /\ input_partition_' = <<input>>
          /\ state_' = "REPARTITIONING"
          /\ IF input.level + 1 >= MaxPartitionDepth
             THEN /\ join_status' = "PARTITIONED_HASH_JOIN_MAX_PARTITION_DEPTH"
                  /\ join_pc' = "error"
                  /\ UNCHANGED <<build_rows_read, join_hash_partitions_>>
             ELSE /\ join_hash_partitions_' = [i \in 1..Fanout |-> JoinNewPartition(input.level + 1)]
                  /\ join_pc' = "build"
                  /\ build_rows_read' = 0
                  /\ UNCHANGED join_status
    /\ UNCHANGED <<seedVars, htVars, eosVars, varLenVars, aggVars, runtimeVars, naajVars, resizeVars, cleanupVars, appendVars, unmatchedVars, expandVars, hashTblsVars,
                   join_op_, build_input, probe_input, probe_rows_read,
                   output_build_partitions_, join_output, join_num_spilled_partitions_, join_num_repartitions_>>

\* SpillPartition (aggregation) when a stream operation of Partition::Spill
\* fails after the hash table was closed: `return ...->Spill()` at line 1333
\* and RETURN_IF_ERROR in the callers.
AggSpillPartitionFails ==
    /\ ~is_streaming_preagg_
    /\ \/ agg_pc = "open" /\ child_rows_read < Len(agg_input)
       \/ RepartitionRowsLeft
    /\ LET idx == SpillPartitionIdx(hash_partitions_)
       IN /\ idx # 0
          /\ hash_partitions_' = [hash_partitions_ EXCEPT ![idx] = PartitionSpill(@)]
          /\ hash_tbls_' = HashTblsAfterSpill(hash_tbls_, idx)
    /\ sub_step_status' = StreamError
    /\ agg_status' = StreamError
    /\ agg_pc' = "error"
    /\ UNCHANGED <<seedVars, htVars, eosVars, varLenVars, joinVars, runtimeVars, resizeVars, cleanupVars, appendVars, unmatchedVars, expandVars, join_hash_tbls_,
                   is_streaming_preagg_, agg_input, child_rows_read,
                   aggregated_partitions_, spilled_partitions_, output_partition_,
                   output_iterator_, repartition_pos, agg_output, num_spilled_partitions_, num_repartitions_>>

\* The position in parts of the first spilled partition with rows, the
\* first whose streams MoveHashPartitions unpins; 0 when there is none.
FirstUnpinned(parts) ==
    LET S == {i \in 1..Len(parts) : NumRows(parts[i]) > 0 /\ IsSpilled(parts[i])}
    IN IF S = {} THEN 0 ELSE CHOOSE i \in S : \A j \in S : i <= j

\* MoveHashPartitions when UnpinStream fails on the first spilled partition
\* with rows (lines 1368-1369): the partitions before it have been moved.
\* Open (line 348) and NextPartition's repartitioning (line 1267) return the
\* error; GetRowsStreaming (line 575) does not look at the Status.
AggMoveHashPartitionsFails ==
    /\ \/ agg_pc \in {"open", "streaming"} /\ child_rows_read = Len(agg_input) /\ (child_rows_read = 0 => ~is_cancelled_)
       \/ agg_pc = "repartition" /\ repartition_pos = NumRows(Head(spilled_partitions_)) /\ NumRows(Head(spilled_partitions_)) # LargestSpilledPartition(hash_partitions_)
    /\ FirstUnpinned(hash_partitions_) # 0
    /\ LET m == MoveHashPartitions(SubSeq(hash_partitions_, 1, FirstUnpinned(hash_partitions_) - 1), IF agg_pc = "repartition" THEN Tail(spilled_partitions_) ELSE spilled_partitions_, aggregated_partitions_)
       IN /\ spilled_partitions_' = m.spilled_partitions
          /\ aggregated_partitions_' = m.aggregated_partitions
    /\ sub_step_status' = StreamError
    /\ IF agg_pc = "streaming"
       THEN agg_pc' = "getnext" /\ UNCHANGED agg_status
       ELSE agg_pc' = "error" /\ agg_status' = StreamError
    /\ UNCHANGED <<seedVars, htVars, eosVars, varLenVars, joinVars, runtimeVars, resizeVars, cleanupVars, appendVars, unmatchedVars, expandVars, hashTblsVars,
                   is_streaming_preagg_, agg_input, child_rows_read, hash_partitions_,
                   output_partition_, output_iterator_, repartition_pos, agg_output,
                   num_spilled_partitions_, num_repartitions_>>

\* The two operators when the stream operations of their spills may fail.
NextStatus ==
    \/ NextAgg
    \/ NextJoin
    \/ JoinSpillPartitionFails
    \/ JoinPrepareNextPartitionSpillFails
    \/ AggSpillPartitionFails
    \/ AggMoveHashPartitionsFails

SpecStatus == InitLifecycle /\ [][NextStatus]_vars

\* ------------------------------------------------------------------------
\* GetNextInternal of the aggregation and the flags that decide its eos.

MaxGetNextCalls == 4     \* GetNext calls between Open and Reset
MaxLimit == 2            \* largest limit_
MaxChildRows == 2        \* rows the child of a streaming pre-aggregation gives
MaxOutputRows == 3       \* intermediate tuples the partitions hold after Open

\* ExecNode::ReachedLimit()
ReachedLimit(limit, num_rows_returned) == limit # -1 /\ num_rows_returned >= limit

ReturnsSingletonOutputAlways(returned) == TRUE

\* GetNextInternal: if (!singleton_output_tuple_returned_) GetSingletonOutput.
ReturnsSingletonOutput(returned) == ~returned

\* One GetNext call.  status is what the RETURN_IF_ERROR / RETURN_IF_CANCELLED
\* steps of the call give; an error return does not assign *eos, and the
\* batch may hold rows only if a row-producing branch was entered.  Without
\* grouping the singleton row is produced once, if the conjuncts pass it.
\* GetRowsStreaming reads child batches until one row was passed through or
\* the child is at eos; GetRowsFromPartition visits tuples until the
\* partitions are used up, the batch is full or the limit is reached.
AggGetNextInternal ==
    /\ eos_pc = "getnext"
    /\ get_next_calls < MaxGetNextCalls
    /\ get_next_calls' = get_next_calls + 1
    /\ \E status \in {"OK", "CANCELLED", "ERROR"} :
         IF status # "OK"
         THEN /\ eos_pc' = "error"
              /\ row_batch_num_rows' \in (IF ReachedLimit(limit_, num_rows_returned_) \/ grouping_expr_ctxs_empty \/ (child_eos_ /\ partition_eos_) THEN {0} ELSE 0..BatchCapacity)
              /\ UNCHANGED <<num_rows_returned_, singleton_output_tuple_returned_, child_eos_, partition_eos_, child_rows_left, output_rows_left, eos, singleton_rows_returned>>
         ELSE IF ReachedLimit(limit_, num_rows_returned_)
         THEN /\ eos' = TRUE
              /\ row_batch_num_rows' = 0
              /\ UNCHANGED <<eos_pc, num_rows_returned_, singleton_output_tuple_returned_, child_eos_, partition_eos_, child_rows_left, output_rows_left, singleton_rows_returned>>
         ELSE IF grouping_expr_ctxs_empty
         THEN \E conjuncts_pass \in BOOLEAN :
                LET added == IF ReturnsSingletonOutput(singleton_output_tuple_returned_) /\ conjuncts_pass THEN 1 ELSE 0
                IN /\ row_batch_num_rows' = added
                   /\ num_rows_returned_' = num_rows_returned_ + added
                   /\ singleton_rows_returned' = singleton_rows_returned + added
                   /\ singleton_output_tuple_returned_' = TRUE
                   /\ eos' = TRUE
                   /\ UNCHANGED <<eos_pc, child_eos_, partition_eos_, child_rows_left, output_rows_left>>
         ELSE IF ~child_eos_
         THEN \E consumed \in 0..child_rows_left, at_eos \in BOOLEAN :
                \E passed \in 0..consumed :
                  \E inserted \in 0..(consumed - passed) :
                    /\ at_eos => consumed = child_rows_left
                    /\ ~at_eos => passed > 0
                    /\ passed <= BatchCapacity
                    /\ child_rows_left' = child_rows_left - consumed
                    /\ child_eos_' = at_eos
                    /\ output_rows_left' = output_rows_left + inserted
                    /\ num_rows_returned_' = num_rows_returned_ + passed
                    /\ row_batch_num_rows' = passed
                    /\ eos' = (partition_eos_ /\ at_eos)
                    /\ UNCHANGED <<eos_pc, singleton_output_tuple_returned_, partition_eos_, singleton_rows_returned>>
         ELSE IF ~partition_eos_
         THEN IF output_rows_left = 0
              THEN /\ partition_eos_' = TRUE
                   /\ eos' = child_eos_
                   /\ row_batch_num_rows' = 0
                   /\ UNCHANGED <<eos_pc, num_rows_returned_, singleton_output_tuple_returned_, child_eos_, child_rows_left, output_rows_left, singleton_rows_returned>>
              ELSE \E visited \in 1..output_rows_left :
                     \E committed \in 0..visited :
                       /\ committed <= BatchCapacity
                       /\ limit_ # -1 => num_rows_returned_ + committed <= limit_
                       /\ visited < output_rows_left => (committed = BatchCapacity \/ ReachedLimit(limit_, num_rows_returned_ + committed))
                       /\ output_rows_left' = output_rows_left - visited
                       /\ num_rows_returned_' = num_rows_returned_ + committed
                       /\ row_batch_num_rows' = committed
                       /\ partition_eos_' = ReachedLimit(limit_, num_rows_returned_ + committed)
                       /\ eos' = (ReachedLimit(limit_, num_rows_returned_ + committed) /\ child_eos_)
                       /\ UNCHANGED <<eos_pc, singleton_output_tuple_returned_, child_eos_, child_rows_left, singleton_rows_returned>>
         ELSE /\ eos' = (partition_eos_ /\ child_eos_)
              /\ row_batch_num_rows' = 0
              /\ UNCHANGED <<eos_pc, num_rows_returned_, singleton_output_tuple_returned_, child_eos_, partition_eos_, child_rows_left, output_rows_left, singleton_rows_returned>>
    /\ UNCHANGED <<seedVars, htVars, aggVars, joinVars, runtimeVars, resizeVars, cleanupVars, appendVars, unmatchedVars, expandVars, statusVars, hashTblsVars, varLenVars, grouping_expr_ctxs_empty, limit_>>

\* Reset followed by Open: without grouping the singleton tuple is made again;
\* with grouping the two eos flags are cleared and Open reads the child to
\* its end.  ExecNode::Reset clears num_rows_returned_.
AggResetThenOpen ==
    /\ eos_pc = "getnext"
    /\ ~is_streaming_preagg_
    /\ num_resets < MaxResets
    /\ num_resets' = num_resets + 1
    /\ singleton_output_tuple_returned_' = IF grouping_expr_ctxs_empty THEN FALSE ELSE singleton_output_tuple_returned_
    /\ partition_eos_' = IF grouping_expr_ctxs_empty THEN partition_eos_ ELSE FALSE
    /\ child_eos_' = TRUE
    /\ output_rows_left' \in (IF grouping_expr_ctxs_empty THEN {0} ELSE 0..MaxOutputRows)
    /\ num_rows_returned_' = 0
    /\ eos' = FALSE
    /\ row_batch_num_rows' = 0
    /\ get_next_calls' = 0
    /\ singleton_rows_returned' = 0
    /\ UNCHANGED <<seedVars, htVars, aggVars, joinVars, is_cancelled_, batches_since_cancel, destroyed_open, resizeVars, cleanupVars, appendVars, unmatchedVars, expandVars, statusVars, hashTblsVars, varLenVars, eos_pc, grouping_expr_ctxs_empty, limit_, child_rows_left>>

\* The aggregation after Prepare and Open: without grouping, with grouping,
\* or as a streaming pre-aggregation (grouping, no limit), which has read
\* nothing yet.
InitEos ==
    /\ RuntimeIdle
    /\ StatusIdle
    /\ VarLenIdle
    /\ HashTblsIdle
    /\ ResizeIdle
    /\ CleanupIdle
    /\ AppendIdle
    /\ UnmatchedIdle
    /\ ExpandIdle
    /\ SeedsIdle
    /\ HtIdle
    /\ JoinIdle
    /\ agg_pc = "idle"
    /\ is_streaming_preagg_ \in BOOLEAN
    /\ agg_input = <<>>
    /\ child_rows_read = 0
    /\ hash_partitions_ = <<>>
    /\ aggregated_partitions_ = <<>>
    /\ spilled_partitions_ = <<>>
    /\ output_partition_ = <<>>
    /\ output_iterator_ = 1
    /\ repartition_pos = 0
    /\ agg_output = <<>>
    /\ agg_status = "OK"
    /\ num_spilled_partitions_ = 0
    /\ num_repartitions_ = 0
    /\ eos_pc = "getnext"
    /\ grouping_expr_ctxs_empty \in (IF is_streaming_preagg_ THEN {FALSE} ELSE BOOLEAN)
    /\ limit_ \in (IF is_streaming_preagg_ THEN {-1} ELSE (-1)..MaxLimit)
    /\ num_rows_returned_ = 0
    /\ singleton_output_tuple_returned_ = ~grouping_expr_ctxs_empty
    /\ child_eos_ = ~is_streaming_preagg_
    /\ partition_eos_ = FALSE
    /\ child_rows_left \in (IF is_streaming_preagg_ THEN 0..MaxChildRows ELSE {0})
    /\ output_rows_left \in (IF is_streaming_preagg_ \/ grouping_expr_ctxs_empty THEN {0} ELSE 0..MaxOutputRows)
    /\ eos = FALSE
    /\ row_batch_num_rows = 0
    /\ get_next_calls = 0
    /\ singleton_rows_returned = 0

NextEos == AggGetNextInternal \/ AggResetThenOpen

SpecEos == InitEos /\ [][NextEos]_vars

\* ------------------------------------------------------------------------
\* HashTableCtx over keys of fixed and of variable length: EvalRow,
\* HashCurrentRow / HashVariableLenRow and Equals<true> on a build row and a
\* probe row.

\* Addresses at which the rows' strings lie.
NumAddrs == 4

\* The bytes of the string at an address: the empty string at address 1, and
\* every other string at two addresses.
StringAt(addr) == IF addr = 1 THEN <<>> ELSE <<(addr \div 2) % 2>>

\* What GetValue returns for a STRING key: a StringValue {ptr, len}.
StringValueAt(addr) == [ptr |-> addr, len |-> Len(StringAt(addr))]

\* The keys' types as Expr::ComputeResultsLayout orders the slots: those of
\* fixed length first.
KeyTypes == {t \in [1..NumExprs -> {"INT", "STRING"}] : \A i \in 1..NumExprs, j \in 1..NumExprs : (i < j /\ t[i] = "STRING") => t[j] = "STRING"}

\* expr_values_cache_.var_result_offset(), in slots: -1 without a string key.
VarResultOffset(types) ==
    IF \A i \in 1..NumExprs : types[i] = "INT" THEN -1
    ELSE (CHOOSE i \in 1..NumExprs : types[i] = "STRING" /\ \A j \in 1..(i - 1) : types[j] = "INT") - 1

\* The rows: per key a value, the address of a string, or NULL.
TypedRows(types) ==
    {r \in [1..NumExprs -> (0..MaxVal) \cup (1..NumAddrs) \cup {NullPtr}] :
        \A i \in 1..NumExprs : r[i] = NullPtr \/ (IF types[i] = "INT" THEN r[i] \in 0..MaxVal ELSE r[i] \in 1..NumAddrs)}

\* A slot of the values buffer after ExprValuesCache::Init (memset 0).
ZeroSlot(type) == IF type = "INT" THEN 0 ELSE [ptr |-> 0, len |-> 0]

\* The bytes of NULL_VALUE read as a value of the type.
NullValueAs(type) == IF type = "INT" THEN NULL_VALUE ELSE [ptr |-> NULL_VALUE, len |-> NULL_VALUE]

\* HashTableCtx::EvalRow from expression i on, over typed keys:
\* RawValue::Write(val, loc, type, NULL) copies a string's ptr and len.
RECURSIVE EvalTypedRowFrom(_, _, _, _, _, _, _)
EvalTypedRowFrom(row, types, values, nulls, i, has_null, stores_nulls) ==
    IF i > NumExprs THEN [has_null |-> has_null, values |-> values, nulls |-> nulls]
    ELSE IF row[i] = NullPtr
         THEN IF ~stores_nulls
              THEN [has_null |-> TRUE, values |-> values, nulls |-> nulls]
              ELSE EvalTypedRowFrom(row, types, [values EXCEPT ![i] = NullValueAs(types[i])], [nulls EXCEPT ![i] = TRUE], i + 1, TRUE, stores_nulls)
         ELSE EvalTypedRowFrom(row, types, [values EXCEPT ![i] = IF types[i] = "INT" THEN row[i] ELSE StringValueAt(row[i])], [nulls EXCEPT ![i] = FALSE], i + 1, has_null, stores_nulls)

\* HashTableCtx::Hash: HashUtil::Hash at level 0, HashUtil::MurmurHash2_64 at
\* the other levels (both external), as two seeded folds of the bytes.
RECURSIVE Hash(_, _, _)
Hash(input, hash, level) ==
    IF input = <<>> THEN hash
    ELSE Hash(Tail(input), IF level = 0 THEN (hash * 3 + Head(input) + 1) % HashSpace ELSE (hash * 5 + Head(input) + 2) % HashSpace, level)

\* seeds_[level]
LevelSeed(level) == Level0Seed + level

\* The bytes of the first n slots of cur_expr_values_.
RECURSIVE SlotBytes(_, _, _)
SlotBytes(values, types, n) ==
    IF n = 0 THEN <<>>
    ELSE SlotBytes(values, types, n - 1) \o (IF types[n] = "INT" THEN <<values[n]>> ELSE <<values[n].ptr, values[n].len>>)

\* Hashing the StringValue header instead of the string.
StringBytesOfHeader(str) == <<str.ptr, str.len>>

\* Hash(str->ptr, str->len, hash) reads the len bytes at ptr.
StringBytes(str) == SubSeq(StringAt(str.ptr), 1, str.len)

\* HashTableCtx::HashVariableLenRow from expression i on.
RECURSIVE HashVariableLenRowFrom(_, _, _, _, _, _)
HashVariableLenRowFrom(values, nulls, types, level, i, hash) ==
    IF i > NumExprs THEN hash
    ELSE IF types[i] # "STRING" THEN HashVariableLenRowFrom(values, nulls, types, level, i + 1, hash)
    ELSE IF nulls[i] THEN HashVariableLenRowFrom(values, nulls, types, level, i + 1, Hash(<<values[i].ptr, values[i].len>>, hash, level))
    ELSE HashVariableLenRowFrom(values, nulls, types, level, i + 1, Hash(StringBytes(values[i]), hash, level))

HashVariableLenRow(values, nulls, types, level) ==
    LET var_result_offset == VarResultOffset(types)
        hash == IF var_result_offset # 0 THEN Hash(SlotBytes(values, types, var_result_offset), LevelSeed(level), level) ELSE LevelSeed(level)
    IN HashVariableLenRowFrom(values, nulls, types, level, 1, hash)

\* HashTableCtx::HashCurrentRow at the context's level.
HashCurrentRowAtLevel(values, nulls, types, level) ==
    IF VarResultOffset(types) = -1
    THEN Hash(SlotBytes(values, types, NumExprs), LevelSeed(level), level)
    ELSE HashVariableLenRow(values, nulls, types, level)

\* RawValue::Eq (external) on a cached slot and a build value: strings are
\* equal when their lengths and their bytes are.
RawValueEq(loc, val, type) ==
    IF type = "INT" THEN loc = val
    ELSE loc.len = Len(StringAt(val)) /\ SubSeq(StringAt(loc.ptr), 1, loc.len) = StringAt(val)

\* HashTableCtx::Equals<true>(build_row) from expression i on.
RECURSIVE EqualsTypedFrom(_, _, _, _, _)
EqualsTypedFrom(build_row, values, nulls, types, i) ==
    IF i > NumExprs THEN TRUE
    ELSE IF build_row[i] = NullPtr
         THEN IF ~nulls[i] THEN FALSE ELSE EqualsTypedFrom(build_row, values, nulls, types, i + 1)
         ELSE IF nulls[i] THEN FALSE
              ELSE IF ~RawValueEq(values[i], build_row[i], types[i]) THEN FALSE
              ELSE EqualsTypedFrom(build_row, values, nulls, types, i + 1)

\* EvalAndHashBuild on the build row: EvalRow, then HashCurrentRow unless the
\* row has a NULL the table does not store.
HashEvalAndHashBuild ==
    /\ hash_pc = "new"
    /\ LET e == EvalTypedRowFrom(hash_build_row, build_expr_types, cur_expr_values_, cur_expr_values_null_, 1, FALSE, ctx_stores_nulls)
       IN /\ cur_expr_values_' = e.values
          /\ cur_expr_values_null_' = e.nulls
          /\ IF e.has_null /\ ~ctx_stores_nulls
             THEN hash_pc' = "skipped" /\ UNCHANGED build_row_hash
             ELSE hash_pc' = "build" /\ build_row_hash' = HashCurrentRowAtLevel(e.values, e.nulls, build_expr_types, level_)
    /\ UNCHANGED <<seedVars, htVars, aggVars, joinVars, runtimeVars, resizeVars, cleanupVars, appendVars, unmatchedVars, expandVars, statusVars, eosVars, hashTblsVars, level_, build_expr_types, ctx_stores_nulls, hash_build_row, hash_probe_row, probe_row_hash, equals_result>>

\* EvalAndHashProbe on the probe row, every key finding NULLs.
HashEvalAndHashProbe ==
    /\ hash_pc = "build"
    /\ LET e == EvalTypedRowFrom(hash_probe_row, build_expr_types, cur_expr_values_, cur_expr_values_null_, 1, FALSE, ctx_stores_nulls)
       IN /\ cur_expr_values_' = e.values
          /\ cur_expr_values_null_' = e.nulls
          /\ IF e.has_null /\ ~ctx_stores_nulls
             THEN hash_pc' = "skipped" /\ UNCHANGED probe_row_hash
             ELSE hash_pc' = "probe" /\ probe_row_hash' = HashCurrentRowAtLevel(e.values, e.nulls, build_expr_types, level_)
    /\ UNCHANGED <<seedVars, htVars, aggVars, joinVars, runtimeVars, resizeVars, cleanupVars, appendVars, unmatchedVars, expandVars, statusVars, eosVars, hashTblsVars, level_, build_expr_types, ctx_stores_nulls, hash_build_row, hash_probe_row, build_row_hash, equals_result>>

\* Equals<true>(build row) against the cached probe row.
HashEquals ==
    /\ hash_pc = "probe"
    /\ equals_result' = EqualsTypedFrom(hash_build_row, cur_expr_values_, cur_expr_values_null_, build_expr_types, 1)
    /\ hash_pc' = "compared"
    /\ UNCHANGED <<seedVars, htVars, aggVars, joinVars, runtimeVars, resizeVars, cleanupVars, appendVars, unmatchedVars, expandVars, statusVars, eosVars, hashTblsVars, level_, build_expr_types, ctx_stores_nulls, hash_build_row, hash_probe_row, cur_expr_values_, cur_expr_values_null_, build_row_hash, probe_row_hash>>

\* A context at any level over any key types, and any two rows.
InitVarLen ==
    /\ RuntimeIdle
    /\ StatusIdle
    /\ EosIdle
    /\ HashTblsIdle
    /\ ResizeIdle
    /\ CleanupIdle
    /\ AppendIdle
    /\ UnmatchedIdle
    /\ ExpandIdle
    /\ SeedsIdle
    /\ HtIdle
    /\ AggIdle
    /\ JoinIdle
    /\ hash_pc = "new"
    /\ level_ \in 0..(MaxPartitionDepth - 1)
    /\ build_expr_types \in KeyTypes
    /\ ctx_stores_nulls \in BOOLEAN
    /\ hash_build_row \in TypedRows(build_expr_types)
    /\ hash_probe_row \in TypedRows(build_expr_types)
    /\ cur_expr_values_ = [i \in 1..NumExprs |-> ZeroSlot(build_expr_types[i])]
    /\ cur_expr_values_null_ = [i \in 1..NumExprs |-> FALSE]
    /\ build_row_hash = 0
    /\ probe_row_hash = 0
    /\ equals_result = FALSE

NextVarLen == HashEvalAndHashBuild \/ HashEvalAndHashProbe \/ HashEquals

SpecVarLen == InitVarLen /\ [][NextVarLen]_vars

\* Either operator driven to the end of its output: the driver keeps calling
\* Open / GetNext, so a call that can take a step eventually takes one.
SpecTermination == InitLifecycle /\ [][NextSpill]_vars /\ WF_vars(NextSpill)

\* Either operator on every small input, with the failing calls of
\* Partition::Spill: the runs in which the hash_tbls_ caches are filled by
\* CreateHashPartitions and BuildHashTables and cleared by SpillPartition.
InitHashTbls == InitAgg \/ InitJoin

SpecHashTbls == InitHashTbls /\ [][NextStatus]_vars

\* ------------------------------------------------------------------------
\* Properties
\* ------------------------------------------------------------------------

\* C6: the per-level seeds are pairwise distinct, seed[i] # seed[j] for all
\* 0 <= i < j <= MAX_DEPTH, for every non-zero initial seed.
SeedsPairwiseDistinct ==
    \A i, j \in DOMAIN seeds_ : i < j => seeds_[i] # seeds_[j]

HasNull(row) == \E i \in 1..NumExprs : row[i] = NullPtr

FirstNull(row) == CHOOSE i \in 1..NumExprs :
                      row[i] = NullPtr /\ \A j \in 1..(i - 1) : row[j] # NullPtr

AllFindNulls == [i \in 1..NumExprs |-> TRUE]

\* C5: after every successful insert, in any interleaving of inserts and
\* CheckAndResize calls, num_filled <= 0.75 * num_buckets.
LoadFactorBound ==
    ht_pc = "ready" => num_filled_buckets_ * 4 <= num_buckets_ * 3

\* C5 witness: a successful insert that brings a resized table to the bound.
LoadFactorBoundWitness ==
    /\ ht_pc = "ready"
    /\ last_op.op = "Insert" /\ last_op.ok
    /\ num_resizes_ > 0
    /\ num_filled_buckets_ * 4 > (num_buckets_ - 1) * 3

\* C7: with stores_nulls = false, EvalRow returns true at the first NULL key
\* (leaving the rest of the cache row as it was), and no row with a NULL key is
\* inserted or returned as a match.
NullKeysSkipped ==
    (~stores_nulls_ /\ ht_pc = "ready") =>
        /\ \A s \in DOMAIN tuple_stream_ : ~HasNull(tuple_stream_[s])
        /\ \A row \in Rows : HasNull(row) =>
              LET e == EvalRow(row, cache, stores_nulls_)
              IN  /\ e.has_null
                  /\ \A i \in FirstNull(row)..NumExprs :
                        /\ e.cache.values[i] = cache.values[i]
                        /\ e.cache.nulls[i] = cache.nulls[i]
                  /\ ~EvalAndHashBuild(row, cache, stores_nulls_).ok
                  /\ FindProbeRow(row, cache).idx = BUCKET_NOT_FOUND
        /\ (last_op.op \in {"Insert", "FindProbeRow"} /\ HasNull(last_op.row))
              => ~last_op.ok

\* C7 witness: a row with a NULL key was offered to a table that holds rows
\* and stores no NULLs, and was rejected.
NullKeysSkippedWitness ==
    /\ ~stores_nulls_ /\ ht_pc = "ready"
    /\ num_filled_buckets_ > 0
    /\ last_op.op = "Insert" /\ HasNull(last_op.row) /\ ~last_op.ok

\* C8: Equals with the cached row of the row K just evaluated (stores_nulls
\* true) against any build row B:
\* (a) with every finds_nulls true, B = K (NULL positions included) is equal,
\*     and a probe with a stored row finds it;
\* (b) FORCE_NULL_EQUALITY false and finds_nulls[i] false: a NULL in position
\*     i on either side gives false;
\* (c) rows differing in the NULL status of a key are never equal;
\* (d) FORCE_NULL_EQUALITY true: NULL = NULL in every position, whatever
\*     finds_nulls says.
EqualsNullSemantics ==
    (stores_nulls_ /\ ht_pc = "ready" /\ last_op.op \in {"Insert", "FindProbeRow"}) =>
        LET K == last_op.row
        IN  /\ Equals(K, cache, FALSE, AllFindNulls)
            /\ finds_nulls_ = AllFindNulls =>
                  \A s \in DOMAIN tuple_stream_ :
                      LET f == FindProbeRow(tuple_stream_[s], cache)
                      IN  /\ f.idx # BUCKET_NOT_FOUND
                          /\ GetRow(buckets_[f.idx], nodes_, tuple_stream_)
                                = tuple_stream_[s]
            /\ \A B \in Rows, fn \in [1..NumExprs -> BOOLEAN] :
                  /\ (\E i \in 1..NumExprs :
                          ~fn[i] /\ (B[i] = NullPtr \/ K[i] = NullPtr))
                        => ~Equals(B, cache, FALSE, fn)
                  /\ (\E i \in 1..NumExprs : (B[i] = NullPtr) # (K[i] = NullPtr))
                        => (~Equals(B, cache, FALSE, fn) /\ ~Equals(B, cache, TRUE, fn))
                  /\ Equals(B, cache, TRUE, fn) <=> (B = K)

\* C8 witness: a probe with a row that has a NULL key, on a table that stores
\* a row with a NULL key and matches NULLs on some keys only.
EqualsNullSemanticsWitness ==
    /\ stores_nulls_ /\ ht_pc = "ready"
    /\ \E i, j \in 1..NumExprs : finds_nulls_[i] /\ ~finds_nulls_[j]
    /\ last_op.op = "FindProbeRow" /\ HasNull(last_op.row)
    /\ \E s \in DOMAIN tuple_stream_ : HasNull(tuple_stream_[s])

\* The hash of key k: the hash of its packed values, NULLs as the sentinel.
KeyHash(k) == HashCurrentRow(EvalRowFrom(k, EmptyCache, 1, FALSE, TRUE).cache)

\* The stored key equals the probed key k: the same values and NULLs in the
\* same positions, a NULL being equal to a NULL only where finds_nulls allows.
SameKey(stored, k) ==
    \A i \in 1..NumExprs :
        stored[i] = k[i] /\ (k[i] = NullPtr => finds_nulls_[i])

\* The filled buckets with the cached hash of k and a stored key equal to k.
BucketsOf(k) ==
    {i \in DOMAIN buckets_ :
        /\ buckets_[i].filled
        /\ buckets_[i].hash = KeyHash(k)
        /\ SameKey(GetRow(buckets_[i], nodes_, tuple_stream_), k)}

\* For every key k there is at most one bucket of k, and the probe returns it,
\* or the end iterator when there is none.
ProbeFindsTheBucket ==
    \A k \in Rows :
        /\ Cardinality(BucketsOf(k)) <= 1
        /\ LET idx == FindProbeRow(k, cache).idx
            IN  IF BucketsOf(k) = {} THEN idx = BUCKET_NOT_FOUND
                ELSE idx \in BucketsOf(k)

NoKeyInsertedTwice ==
    \A s, t \in DOMAIN tuple_stream_ : s # t => tuple_stream_[s] # tuple_stream_[t]

\* C3 as stated: after any sequence of inserts with no resize, at most one
\* filled bucket has cached hash h and a stored key equal to k, and probe(h, k)
\* returns exactly that bucket, or the end iterator when there is none.
ProbeDeterminism ==
    (ht_pc = "ready" /\ num_resizes_ = 0) => ProbeFindsTheBucket

\* C3 amended: the same, for tables that store duplicates and for tables into
\* which no key was inserted twice.
ProbeDeterminismDistinctKeys ==
    (ht_pc = "ready" /\ num_resizes_ = 0
        /\ (stores_duplicates_ \/ NoKeyInsertedTwice)) => ProbeFindsTheBucket

\* C3 witness: a never-resized table with a duplicate chain and a second
\* filled bucket, just probed with success.
ProbeDeterminismWitness ==
    /\ ht_pc = "ready" /\ num_resizes_ = 0
    /\ num_buckets_with_duplicates_ > 0 /\ num_filled_buckets_ > 1
    /\ last_op.op = "FindProbeRow" /\ last_op.ok

\* The multiset of the filled buckets of a bucket array: each with its cached
\* hash, data (entry or chain head), matched and has_duplicates flags.
FilledBuckets(b) ==
    LET recs == {b[i] : i \in {j \in DOMAIN b : b[j].filled}}
    IN  [r \in recs |-> Cardinality({i \in DOMAIN b : b[i] = r})]

\* Bucket `target` is met by the probe sequence that starts at bucket idx (after
\* `step` steps) before the sequence meets an empty bucket or ends.
RECURSIVE ProbeReaches(_, _, _, _, _)
ProbeReaches(b, n, idx, step, target) ==
    IF idx = target THEN TRUE
    ELSE IF ~b[idx].filled \/ step + 1 >= n THEN FALSE
         ELSE ProbeReaches(b, n,
                  IF quadratic_probing_ THEN (idx + step + 1) % n ELSE (idx + 1) % n,
                  step + 1, target)

\* The stored keys a probe finds.
KeysPresent == {k \in Rows : FindProbeRow(k, cache).idx # BUCKET_NOT_FOUND}

SecondCloseIsNoOp ==
    [][/\ (ht_closes >= 1 /\ ht_closes' = ht_closes + 1) =>
             (block_mgr_mem' = block_mgr_mem /\ buckets_freed' = buckets_freed)
       /\ (ctx_closes >= 1 /\ ctx_closes' = ctx_closes + 1) =>
             tracker_' = tracker_]_vars

\* ------------------------------------------------------------------------
\* PartitionedAggregationNode properties
\* ------------------------------------------------------------------------

\* The fold of a group: the number of input rows among the first n with key k.
GroupCount(k, n) == Cardinality({i \in 1..n : agg_input[i] = k})

\* The positions of the output rows of group k.
OutputRowsOf(k) == {i \in 1..Len(agg_output) : agg_output[i].key = k}

RECURSIVE SumCnt(_, _, _)
\* The sum of the counts the rows of key k carry in a stream, from position
\* 'from' on.
SumCnt(stream, k, from) ==
    IF from > Len(stream) THEN 0
    ELSE (IF stream[from].key = k THEN stream[from].cnt ELSE 0) + SumCnt(stream, k, from + 1)

RECURSIVE SumOverPartitions(_, _, _)
\* The same sum over the aggregated streams of a list of partitions.
SumOverPartitions(parts, k, i) ==
    IF i > Len(parts) THEN 0
    ELSE SumCnt(parts[i].aggregated_row_stream, k, 1) + SumOverPartitions(parts, k, i + 1)

\* C1: when the non-streaming aggregation reaches eos (no terminal error),
\* whatever partitions were spilled and repartitioned on the way, GetNext has
\* returned exactly one row for every grouping key of the input, carrying the
\* fold (count) of that group, and no row for any other key: the output of a
\* run that never spills.
AggregationRefinesUnlimitedMemory ==
    (agg_pc = "eos" /\ ~is_streaming_preagg_) =>
        \A k \in Keys :
            IF GroupCount(k, Len(agg_input)) = 0
            THEN OutputRowsOf(k) = {}
            ELSE /\ Cardinality(OutputRowsOf(k)) = 1
                 /\ \A i \in OutputRowsOf(k) : agg_output[i].cnt = GroupCount(k, Len(agg_input))

\* A run that spilled and repartitioned twice and returned at least two
\* groups, one of them folded from several rows.
AggregationRefinesUnlimitedMemoryWitness ==
    /\ agg_pc = "eos"
    /\ ~is_streaming_preagg_
    /\ num_repartitions_ >= 2
    /\ Len(agg_output) >= 2
    /\ \E i \in 1..Len(agg_output) : agg_output[i].cnt >= 2

\* C10: a streaming pre-aggregation never spills: Partition::Spill is never
\* called and SpillPartition never fails for want of a partition,
\* spilled_partitions_ stays empty, nothing is repartitioned and every
\* partition is of level 0; every row read from the child is counted either
\* in a group still held by a hash table or in a row already returned; and a
\* partition lacks its hash table exactly when Prepare failed with the
\* mem-limit error, before any row was read.
StreamingPreaggNeverSpills ==
    is_streaming_preagg_ =>
        /\ num_spilled_partitions_ = 0
        /\ num_repartitions_ = 0
        /\ spilled_partitions_ = <<>>
        /\ \A p \in Range(hash_partitions_) \cup Range(aggregated_partitions_) \cup Range(output_partition_) : p.level = 0
        /\ \A p \in Range(aggregated_partitions_) \cup Range(output_partition_) : ~IsSpilled(p)
        /\ (\E p \in Range(hash_partitions_) : IsSpilled(p)) <=> agg_pc = "error"
        /\ agg_pc = "error" => agg_status = "MEM_LIMIT_EXCEEDED" /\ child_rows_read = 0
        /\ agg_pc # "error" => agg_status = "OK"
        /\ \A k \in Keys :
             GroupCount(k, child_rows_read)
               = SumCnt(agg_output, k, 1)
                 + SumOverPartitions(hash_partitions_, k, 1)
                 + SumOverPartitions(aggregated_partitions_, k, 1)
                 + (IF output_partition_ = <<>> THEN 0 ELSE SumCnt(output_partition_[1].aggregated_row_stream, k, output_iterator_))

\* A streaming run at eos that passed a row through although its group was
\* also returned from a hash table, and that folded several rows into a group.
StreamingPreaggNeverSpillsWitness ==
    /\ agg_pc = "eos"
    /\ is_streaming_preagg_
    /\ \E i, j \in 1..Len(agg_output) : i # j /\ agg_output[i].key = agg_output[j].key
    /\ \E i \in 1..Len(agg_output) : agg_output[i].cnt >= 2

\* ------------------------------------------------------------------------
\* PartitionedHashJoinNode properties
\* ------------------------------------------------------------------------

\* The pairs of a probe row and a build row with equal keys.
MatchingPairs(build, probe) == {<<i, j>> \in (1..Len(probe)) \X (1..Len(build)) : probe[i] = build[j]}

\* The rows the join op returns for the two inputs when every build row is
\* in a hash table while the probe rows pass, as in a run that never spills.
JoinResult(op, build, probe) ==
    LET pairs == MatchingPairs(build, probe)
        probe_matched == {<<i, 0>> : i \in {r[1] : r \in pairs}}
        probe_unmatched == {<<i, 0>> : i \in (1..Len(probe)) \ {r[1] : r \in pairs}}
        build_matched == {<<0, j>> : j \in {r[2] : r \in pairs}}
        build_unmatched == {<<0, j>> : j \in (1..Len(build)) \ {r[2] : r \in pairs}}
    IN CASE op = "INNER_JOIN" -> pairs
         [] op = "LEFT_OUTER_JOIN" -> pairs \cup probe_unmatched
         [] op = "LEFT_SEMI_JOIN" -> probe_matched
         [] op = "LEFT_ANTI_JOIN" -> probe_unmatched
         [] op = "RIGHT_OUTER_JOIN" -> pairs \cup build_unmatched
         [] op = "RIGHT_SEMI_JOIN" -> build_matched
         [] op = "RIGHT_ANTI_JOIN" -> build_unmatched
         [] op = "FULL_OUTER_JOIN" -> pairs \cup probe_unmatched \cup build_unmatched

\* C2: when the join reaches eos (no memory-limit error), whichever partitions
\* were spilled, rebuilt or repartitioned on the way, the multiset of rows
\* GetNext returned is the one of a run that spills nothing: every row of the
\* join op's result exactly once.
JoinOutputIndependentOfSpills ==
    join_pc = "eos" => join_output = SetToBag(JoinResult(join_op_, build_input, probe_input))

\* A full outer join at eos that spilled and went twice through
\* PrepareNextPartition and returned a matched pair, an unmatched probe row
\* and an unmatched build row.
JoinOutputIndependentOfSpillsWitness ==
    /\ join_pc = "eos"
    /\ join_op_ = "FULL_OUTER_JOIN"
    /\ join_num_spilled_partitions_ >= 2
    /\ join_num_repartitions_ >= 2
    /\ \E r \in BagToSet(join_output) : r[1] # 0 /\ r[2] # 0
    /\ \E r \in BagToSet(join_output) : r[1] = 0
    /\ \E r \in BagToSet(join_output) : r[2] = 0

\* The transitions of the state machine of the join as specified (Closed is
\* not a value of state_).
SpecifiedTransitions == {<<"PARTITIONING_BUILD", "PROCESSING_PROBE">>, <<"PROCESSING_PROBE", "PROBING_SPILLED_PARTITION">>, <<"PROBING_SPILLED_PARTITION", "REPARTITIONING">>, <<"REPARTITIONING", "PROBING_SPILLED_PARTITION">>}

\* C11 as stated: state_ only ever changes along the specified transitions.
StateChangesAsSpecified ==
    [][state_' # state_ => <<state_, state_'>> \in SpecifiedTransitions]_vars

\* C11 amended: state_ only ever changes along the specified transitions or
\* from PROCESSING_PROBE straight to REPARTITIONING, when the first spilled
\* partition taken after the probe input ends does not fit in memory.
StateChangesAsSpecifiedOrProbeToRepartition ==
    [][state_' # state_ => <<state_, state_'>> \in SpecifiedTransitions \cup {<<"PROCESSING_PROBE", "REPARTITIONING">>}]_vars

\* The join probes, with its hash table rebuilt, a partition made by
\* repartitioning: state_ has gone through PROCESSING_PROBE, REPARTITIONING
\* and PROBING_SPILLED_PARTITION.
StateChangesWitness ==
    /\ state_ = "PROBING_SPILLED_PARTITION"
    /\ join_pc = "probe"
    /\ input_partition_ # <<>>
    /\ input_partition_[1].level >= 1

\* The build rows whose entry (bucket entry or duplicate node) is marked as
\* matched.
MatchedRows ==
    {buckets_[i].htdata : i \in {j \in DOMAIN buckets_ : buckets_[j].filled /\ ~buckets_[j].hasDuplicates /\ buckets_[j].matched}}
      \cup {nodes_[n].htdata : n \in {k \in DOMAIN nodes_ : nodes_[k].matched}}

\* C12: once the matched bit of a bucket entry or duplicate node is set it
\* stays set across every probe, SetMatched, unmatched-iteration and resize
\* step on the open table (steps that insert no row).
MatchedBitStaysSet ==
    [][(ht_pc = "ready" /\ ht_pc' = "ready" /\ tuple_stream_' = tuple_stream_) => MatchedRows \subseteq MatchedRows']_vars

\* C12 witness: a table with a bucket entry marked as matched has just been
\* resized, and the entry is still marked.
MatchedBitStaysSetWitness ==
    /\ ht_pc = "ready"
    /\ last_op.op = "CheckAndResize" /\ last_op.resized
    /\ \E i \in DOMAIN buckets_ : buckets_[i].filled /\ ~buckets_[i].hasDuplicates /\ buckets_[i].matched

\* A step of SpillPartition that returns OK, in either operator: no other
\* step adds to the spill counter and stays at the same place.
AggSpillPartitionOk == agg_pc' = agg_pc /\ num_spilled_partitions_' = num_spilled_partitions_ + 1
JoinSpillPartitionOk == join_pc' = join_pc /\ join_num_spilled_partitions_' = join_num_spilled_partitions_ + 1

\* A step of SpillPartition that returns the "memory limit too low" error.
AggSpillPartitionError == agg_status = "OK" /\ agg_status' = "MEM_LIMIT_TOO_LOW"
JoinSpillPartitionError == join_status = "OK" /\ join_status' = "MEM_LIMIT_TOO_LOW"

AggResident(p) == ~p.is_closed /\ p.hash_tbl
JoinResident(p) == ~p.is_closed /\ ~p.is_spilled

\* The aggregation half of C13: an OK return spilled exactly one resident
\* partition, none of the resident ones was larger; the error leaves the
\* partitions as they were.
AggSpillsLargestResident ==
    /\ AggSpillPartitionOk =>
          \E i \in 1..Len(hash_partitions_) :
             /\ AggResident(hash_partitions_[i])
             /\ ~hash_partitions_'[i].hash_tbl /\ ~hash_partitions_'[i].is_closed
             /\ \A j \in 1..Len(hash_partitions_) : j # i => hash_partitions_'[j] = hash_partitions_[j]
             /\ \A j \in 1..Len(hash_partitions_) : AggResident(hash_partitions_[j]) => PartitionMem(hash_partitions_[j]) <= PartitionMem(hash_partitions_[i])
    /\ AggSpillPartitionError => hash_partitions_' = hash_partitions_

\* The join half of C13 for the partitions of Among: an OK return spilled
\* exactly one resident partition, none of the resident ones of Among was
\* larger; the error leaves the partitions as they were.
JoinSpillsLargestResident(Among(_)) ==
    /\ JoinSpillPartitionOk =>
          \E i \in 1..Len(join_hash_partitions_) :
             /\ JoinResident(join_hash_partitions_[i])
             /\ join_hash_partitions_'[i].is_spilled /\ ~join_hash_partitions_'[i].hash_tbl /\ ~join_hash_partitions_'[i].is_closed
             /\ \A j \in 1..Len(join_hash_partitions_) : j # i => join_hash_partitions_'[j] = join_hash_partitions_[j]
             /\ \A j \in 1..Len(join_hash_partitions_) : (JoinResident(join_hash_partitions_[j]) /\ Among(join_hash_partitions_[j])) => JoinPartitionMem(join_hash_partitions_[j]) <= JoinPartitionMem(join_hash_partitions_[i])
    /\ JoinSpillPartitionError => join_hash_partitions_' = join_hash_partitions_

AnyPartition(p) == TRUE
WithoutMatches(p) == ~(p.hash_tbl /\ p.matched # {})

\* The error is returned only when SpillPartition has no partition to take.
SpillPartitionErrorWithoutCandidate ==
    /\ AggSpillPartitionError => \A j \in 1..Len(hash_partitions_) : ~AggResident(hash_partitions_[j])
    /\ JoinSpillPartitionError => \A j \in 1..Len(join_hash_partitions_) : ~(JoinResident(join_hash_partitions_[j]) /\ WithoutMatches(join_hash_partitions_[j]))

\* C13 as stated: SpillPartition of either operator, when it returns OK, has
\* spilled exactly one resident partition and no other resident partition had
\* a strictly larger memory footprint; it returns the "memory limit too low"
\* error, changing no partition, when no partition is resident.
SpillPartitionSpillsLargest ==
    [][AggSpillsLargestResident /\ JoinSpillsLargestResident(AnyPartition)]_vars

\* C13 amended: as stated for the aggregation; in the join, the partitions
\* compared are the resident ones whose hash table has no matched entry, and
\* the error is returned when, and only when, there is none of those.
SpillPartitionSpillsLargestWithoutMatches ==
    [][AggSpillsLargestResident /\ JoinSpillsLargestResident(WithoutMatches) /\ SpillPartitionErrorWithoutCandidate]_vars

\* C13 witness: SpillPartition has run while the probe rows of a
\* repartitioned input were processed and has returned the error, the only
\* resident partitions being those whose hash table has matches.
SpillPartitionWitness ==
    /\ join_status = "MEM_LIMIT_TOO_LOW"
    /\ state_ = "REPARTITIONING"
    /\ probe_rows_read >= 1
    /\ \E j \in 1..Len(join_hash_partitions_) : JoinResident(join_hash_partitions_[j]) /\ join_hash_partitions_[j].matched # {}

\* Every partition either operator holds.
AllAggPartitions == Range(hash_partitions_) \cup Range(aggregated_partitions_) \cup Range(spilled_partitions_) \cup Range(output_partition_)
AllJoinPartitions == Range(join_hash_partitions_) \cup Range(join_spilled_partitions_) \cup Range(input_partition_) \cup Range(output_build_partitions_)

\* C14: every partition has a level in 0 .. MAX_PARTITION_DEPTH - 1, and the
\* request that failed with the max-partition-depth error created none.
PartitionLevelsBelowMaxDepth ==
    /\ \A p \in AllAggPartitions \cup AllJoinPartitions : p.level \in 0..(MaxPartitionDepth - 1)
    /\ agg_status = "PARTITIONED_AGG_MAX_PARTITION_DEPTH" => hash_partitions_ = <<>>
    /\ join_status = "PARTITIONED_HASH_JOIN_MAX_PARTITION_DEPTH" => join_hash_partitions_ = <<>>

\* C14 witness: the aggregation asked for partitions one level below a
\* spilled partition of the deepest level and failed.
PartitionLevelsWitness ==
    /\ agg_status = "PARTITIONED_AGG_MAX_PARTITION_DEPTH"
    /\ agg_pc = "error"
    /\ num_repartitions_ >= 1

\* The build rows held by the partitions from the i-th on.
RECURSIVE SumBuildRows(_, _)
SumBuildRows(parts, i) == IF i > Len(parts) THEN 0 ELSE Len(parts[i].build_rows) + SumBuildRows(parts, i + 1)

\* The step that ends the repartitioning of a spilled partition (the reduction
\* check of NextPartition, of PrepareNextPartition), and the step of the join
\* that queues the spilled children once the probe rows are processed.
AggRepartitionEnds == agg_pc = "repartition" /\ agg_pc' # "repartition" /\ agg_status' # "MEM_LIMIT_TOO_LOW"
JoinRepartitionEnds == join_pc = "reserve" /\ state_ = "REPARTITIONING" /\ join_pc' # "reserve" /\ join_status' # "MEM_LIMIT_TOO_LOW"
JoinQueuesChildren == join_pc = "probe" /\ state_ = "REPARTITIONING" /\ join_pc' \in {"unmatched", "next"}

AggSpilledChildren == {q \in Range(hash_partitions_) : ~q.is_closed /\ ~q.hash_tbl}
JoinSpilledChildren == {q \in Range(join_hash_partitions_) : ~q.is_closed /\ q.is_spilled}

\* C15: when a spilled partition of n rows has been repartitioned, the
\* operator fails with the "repartitioning did not reduce the size" error if
\* a spilled child holds n rows; otherwise it goes on, and every spilled child
\* it queues holds fewer than n rows (build rows, in the join).
RepartitioningReducesOrFails ==
    [][/\ AggRepartitionEnds =>
            LET n == NumRows(Head(spilled_partitions_))
            IN IF \E q \in AggSpilledChildren : NumRows(q) = n
               THEN agg_status' = "MEM_LIMIT_EXCEEDED" /\ agg_pc' = "error"
               ELSE /\ agg_status' = "OK" /\ agg_pc' = "getnext"
                    /\ \A q \in AggSpilledChildren : NumRows(q) > 0 => q \in Range(spilled_partitions_')
                    /\ \A q \in Range(spilled_partitions_') \ Range(Tail(spilled_partitions_)) : q \in AggSpilledChildren /\ NumRows(q) < n
       /\ JoinRepartitionEnds =>
            LET n == SumBuildRows(join_hash_partitions_, 1)
            IN IF \E q \in JoinSpilledChildren : Len(q.build_rows) = n
               THEN join_status' = "MEM_LIMIT_EXCEEDED" /\ join_pc' = "error"
               ELSE join_status' = "OK" /\ join_pc' = "probe"
       /\ JoinQueuesChildren =>
            LET n == SumBuildRows(join_hash_partitions_, 1)
            IN /\ \A q \in JoinSpilledChildren : q \in Range(join_spilled_partitions_')
               /\ \A q \in Range(join_spilled_partitions_') \ Range(join_spilled_partitions_) : q \in JoinSpilledChildren /\ Len(q.build_rows) < n]_vars

\* C15 witness: the join has repartitioned a spilled partition, all its build
\* rows went to one child, which was spilled, and the join has failed.
RepartitioningReducesOrFailsWitness ==
    /\ join_status = "MEM_LIMIT_EXCEEDED"
    /\ join_pc = "error"
    /\ state_ = "REPARTITIONING"
    /\ \E q \in JoinSpilledChildren : q.level >= 1 /\ Len(q.build_rows) = SumBuildRows(join_hash_partitions_, 1) /\ Len(q.build_rows) >= 2

\* C16: in a null-aware left anti join that ends without an error, a probe
\* row with a NULL key is returned only if no build row, of any partition,
\* satisfies the other join conjunct with it.
NullProbeRowsCheckedAgainstAllBuildRows ==
    (join_op_ = "NULL_AWARE_LEFT_ANTI_JOIN" /\ join_pc = "eos") =>
        \A r \in 1..Len(probe_input) :
            (probe_input[r] = NullPtr /\ <<r, 0>> \in BagToSet(join_output)) =>
                ~\E b \in 1..Len(build_input) : OtherConjunct(r, b)

\* C17: once the cancellation is signalled, the call in progress processes
\* at most one further batch before it returns.
AtMostOneBatchAfterCancel == batches_since_cancel <= 1

\* C18: no Partition is destroyed before it is closed, and after Close of an
\* operator none of its partitions is left open.
PartitionsClosedBeforeDestroyed ==
    /\ destroyed_open = 0
    /\ agg_pc = "closed" => \A p \in AllAggPartitions : p.is_closed
    /\ join_pc = "closed" => \A p \in AllJoinPartitions : p.is_closed

\* The steps in which CreateHashPartitions(level) runs with a level below
\* MAX_PARTITION_DEPTH: Prepare, and NextPartition on a spilled partition.
CreatesHashPartitionsAt(level) ==
    /\ level < MaxPartitionDepth
    /\ \/ agg_pc = "new" /\ level = 0
       \/ /\ agg_pc = "getnext"
          /\ OutputAtEnd
          /\ aggregated_partitions_ = <<>>
          /\ spilled_partitions_ # <<>>
          /\ level = Head(spilled_partitions_).level + 1

\* The partitions of hash_partitions_ that have no hash table.
WithoutHashTable(parts) == {i \in 1..Len(parts) : ~parts[i].hash_tbl}

MoveHashPartitionsRuns == agg_pc \in {"open", "streaming", "repartition"} /\ agg_pc' = "getnext"

\* A sequence in the opposite order.
ReverseSeq(seq) == [i \in 1..Len(seq) |-> seq[Len(seq) + 1 - i]]

\* The partitions of hash_partitions_ with rows: the spilled ones, and the
\* ones with a hash table.
SpilledWithRows == SelectSeq(hash_partitions_, LAMBDA p : NumRows(p) > 0 /\ ~p.hash_tbl)
ResidentWithRows == SelectSeq(hash_partitions_, LAMBDA p : NumRows(p) > 0 /\ p.hash_tbl)

\* C20: MoveHashPartitions pushes each spilled partition with rows to the
\* front of spilled_partitions_, appends each resident partition with rows to
\* aggregated_partitions_, keeps no partition without rows and leaves
\* hash_partitions_ empty; and at all times a partition of
\* spilled_partitions_ is spilled, open and not empty, and a partition of
\* aggregated_partitions_ has its hash table.
MoveHashPartitionsSortsPartitions ==
    /\ [](/\ \A p \in Range(spilled_partitions_) : ~p.hash_tbl /\ ~p.is_closed /\ NumRows(p) > 0
          /\ \A p \in Range(aggregated_partitions_) : p.hash_tbl /\ ~p.is_closed)
    /\ [][MoveHashPartitionsRuns =>
            /\ hash_partitions_' = <<>>
            /\ spilled_partitions_' = ReverseSeq(SpilledWithRows) \o (IF agg_pc = "repartition" THEN Tail(spilled_partitions_) ELSE spilled_partitions_)
            /\ aggregated_partitions_' = aggregated_partitions_ \o ResidentWithRows]_vars

\* MoveHashPartitions has just run after a repartitioning and has queued a
\* spilled and a resident child partition, having closed an empty one.
MoveHashPartitionsSortsPartitionsWitness ==
    /\ agg_pc = "getnext"
    /\ hash_partitions_ = <<>>
    /\ num_repartitions_ >= 1
    /\ \E p \in Range(spilled_partitions_) : p.level = 1
    /\ \E p \in Range(aggregated_partitions_) : p.level = 1
    /\ Len(spilled_partitions_) + Len(aggregated_partitions_) < Fanout

\* The partitions with a hash table.
ResidentPartitions(parts) == {i \in 1..Len(parts) : ~IsSpilled(parts[i])}

\* A hash table that takes num_rows more rows within the fill factor.
Accommodates(p, num_rows) ==
    /\ ~ExceedsFillFactor(p.num_filled_buckets_ + num_rows, p.num_buckets_)
    /\ p.num_buckets_ <= 2 ^ MaxBucketsLog

CheckAndResizeFailureChangesNothing ==
    [][(ht_pc = "ready" /\ last_op'.op = "CheckAndResize") =>
          /\ num_filled_buckets_' = num_filled_buckets_
          /\ last_op'.resized =>
                /\ last_op'.ok
                /\ num_resizes_' = num_resizes_ + 1
                /\ block_mgr_mem' = block_mgr_mem + num_buckets_' - num_buckets_
                /\ max_num_buckets_ # -1 => num_buckets_' <= max_num_buckets_
                /\ \E n \in 0..MaxBucketsToFill, s \in 1..MaxBucketsLog :
                      /\ num_buckets_' = num_buckets_ * (2 ^ s)
                      /\ ~ExceedsFillFactor(num_filled_buckets_ + n, num_buckets_')
                      /\ ExceedsFillFactor(num_filled_buckets_ + n, num_buckets_' \div 2)
          /\ ~last_op'.resized =>
                /\ buckets_' = buckets_
                /\ num_buckets_' = num_buckets_
                /\ block_mgr_mem' = block_mgr_mem
                /\ num_resizes_' = num_resizes_
          /\ ~last_op'.ok =>
                \E n \in 0..MaxBucketsToFill : ExceedsFillFactor(num_filled_buckets_ + n, num_buckets_)]_vars

\* num_buckets is 2^k for some k.
IsPowerOfTwo(num_buckets) == \E k \in 0..(HashBits + 1) : num_buckets = 2 ^ k

\* The bits of a hash that hash & (num_buckets - 1) keeps, as an unsigned
\* number of the width of the hash.
BucketMask(num_buckets) == (num_buckets - 1) % HashSpace

\* The bucket index uses hash bits above the low MaxBucketsLog ones, which are
\* the bits that select the partition.
UsesPartitioningBits(num_buckets) == BucketMask(num_buckets) >= 2 ^ MaxBucketsLog

\* A resize has been attempted on the table.
ResizeAttempted == num_resizes_ > 0 \/ last_op.op = "CheckAndResize"

\* C23 as stated: in every state of a created table, after a failed Init too,
\* num_buckets is a power of two, does not exceed max_num_buckets once a resize
\* has been attempted, and the bucket index hash & (num_buckets - 1) uses none
\* of the hash bits that select the partition.
NumBucketsAlwaysPowerOfTwo ==
    /\ IsPowerOfTwo(num_buckets_)
    /\ ResizeAttempted => num_buckets_ <= max_num_buckets_
    /\ ~UsesPartitioningBits(num_buckets_)

\* C23: after construction, after a successful Init and after any sequence of
\* successful or failed resizes, num_buckets is a power of two, does not exceed
\* max_num_buckets once a resize has been attempted, and the bucket index uses
\* none of the partitioning bits; after a failed Init num_buckets is 0 and the
\* table has no bucket array.
NumBucketsPowerOfTwoUnlessInitFailed ==
    /\ ht_pc \in {"new", "ready"} =>
          /\ IsPowerOfTwo(num_buckets_)
          /\ ResizeAttempted => num_buckets_ <= max_num_buckets_
          /\ ~UsesPartitioningBits(num_buckets_)
          /\ ht_pc = "ready" => DOMAIN buckets_ = 0..(num_buckets_ - 1)
    /\ ht_pc = "failed" =>
          /\ last_op = [op |-> "Init", ok |-> FALSE]
          /\ num_buckets_ = 0
          /\ buckets_ = <<>>

\* A table at its maximum size that holds rows refused a further resize.
NumBucketsPowerOfTwoWitness ==
    /\ ht_pc = "ready"
    /\ last_op.op = "CheckAndResize"
    /\ ~last_op.ok
    /\ num_buckets_ = max_num_buckets_
    /\ num_filled_buckets_ > 0

\* The intermediate tuples held in a hash table.
TuplesHeld ==
    HashTblTuples(hash_partitions_) \cup HashTblTuples(aggregated_partitions_) \cup HashTblTuples(output_partition_)

\* C24: when the aggregates need finalize or serialize, every intermediate
\* tuple held in a hash table is finalized or serialized exactly once before
\* its hash table is closed, by a spill or by Close: never twice, and not
\* zero times when the table goes.
EveryTupleCleanedUpExactlyOnce ==
    /\ [](\A t \in TupleIds : cleanups[t] <= 1)
    /\ [][\A t \in TuplesHeld \ TuplesHeld' : cleanups'[t] = 1]_vars

\* The stream AppendSpilledRow was called on.
AppendStream == hash_partitions_[append_idx].unaggregated_row_stream

\* What a step of AppendSpilledRow may change.
AppendSpilledRowStep ==
    agg_pc \in {"append", "switch_io"} =>
        /\ \A i \in 1..Fanout : hash_partitions_'[i].aggregated_row_stream = hash_partitions_[i].aggregated_row_stream
        /\ \A i \in 1..Fanout : i # append_idx => hash_partitions_'[i].unaggregated_row_stream = hash_partitions_[i].unaggregated_row_stream
        /\ IsSpilled(hash_partitions_'[append_idx])
        /\ AppendStream' = IF agg_pc' = "appended" THEN Append(AppendStream, agg_input[1]) ELSE AppendStream
        /\ (agg_pc = "switch_io" /\ agg_pc' = "switch_io") =>
              \E i \in ResidentPartitions(hash_partitions_) : ResidentPartitions(hash_partitions_') = ResidentPartitions(hash_partitions_) \ {i}
        /\ agg_pc' # "switch_io" => ResidentPartitions(hash_partitions_') = ResidentPartitions(hash_partitions_)

QueuedBuildRows == UNION {Range(output_build_partitions_[i].build_rows) : i \in 1..Len(output_build_partitions_)}

\* The build rows OutputUnmatchedBuild has taken.
VisitedBuildRows == {b \in DOMAIN unmatched_visits : unmatched_visits[b] > 0}

\* A call of OutputUnmatchedBuild adds at most a batch of rows.
OutputUnmatchedBuildStep == BagCardinality(join_output') <= BagCardinality(join_output) + BatchCapacity

\* C26: after the probe of a resident partition of a right outer, right anti
\* or full outer join, OutputUnmatchedBuild takes every build row whose
\* matched bit the probe did not set exactly once, emits it exactly when it
\* passes the conjuncts, never takes or emits a row the probe matched, however
\* the output is split over batches, and a partition leaves the queue only
\* when all its unmatched rows have been taken.
OutputUnmatchedBuildVisitsEachOnce ==
    /\ [](\A b \in DOMAIN unmatched_visits : unmatched_visits[b] <= 1)
    /\ [](VisitedBuildRows \subseteq unmatched_at_probe_end)
    /\ [](join_output = SetToBag({<<0, b>> : b \in {v \in VisitedBuildRows : UnmatchedConjunct(v)}}))
    /\ [](unmatched_at_probe_end \ QueuedBuildRows \subseteq VisitedBuildRows)
    /\ [](join_pc = "next" => output_build_partitions_ = <<>> /\ VisitedBuildRows = unmatched_at_probe_end)
    /\ [](join_pc = "unmatched" =>
            /\ output_build_partitions_ # <<>>
            /\ \A i \in 1..Len(Head(output_build_partitions_).build_rows) : i < hash_tbl_iterator_ => Head(output_build_partitions_).build_rows[i] \in Head(output_build_partitions_).matched)
    /\ [][OutputUnmatchedBuildStep]_vars

\* A batch reached capacity in the middle of a partition: one of its
\* unmatched rows has been taken, another not yet.
OutputUnmatchedBuildWitness ==
    /\ join_pc = "unmatched"
    /\ \E b1, b2 \in Range(Head(output_build_partitions_).build_rows) \cap unmatched_at_probe_end :
         unmatched_visits[b1] = 1 /\ unmatched_visits[b2] = 0
    /\ \E b \in VisitedBuildRows : ~UnmatchedConjunct(b)

\* The rows stored in the table.
StoredRows == Range(tuple_stream_)

\* The hash of a stored row, as cached in its bucket.
StoredHash(build_row) == EvalAndHashBuild(build_row, EmptyCache, stores_nulls_).cache.hash

\* The last operation evaluated its row into the cache and went on to compare
\* it with the stored rows of equal hash: an insert of a row the table takes,
\* or a lookup that EvalAndHashProbe did not end.
EqualsReached ==
    /\ ht_pc = "ready"
    /\ last_op.op \in {"Insert", "FindProbeRow"}
    /\ HasNull(last_op.row) => stores_nulls_ /\ (last_op.op = "Insert" \/ \E i \in 1..NumExprs : finds_nulls_[i])

\* C27: the code-generated Equals returns the same boolean as the generic
\* HashTableCtx::Equals<FORCE_NULL_EQUALITY> for every stored row and every
\* cached row, in every configuration of stores_nulls and finds_nulls: with
\* FORCE_NULL_EQUALITY when the cached row is a build row being inserted,
\* without when it is a probe row being looked up.  Stated for the stored
\* rows whose hash is that of the cached row, which are the ones compared.
CodegenEqualsAgreesWithEquals ==
    EqualsReached =>
        \A build_row \in {r \in StoredRows : StoredHash(r) = cache.hash} :
            CodegenEquals(build_row, cache, last_op.op = "Insert", finds_nulls_, stores_nulls_)
                = Equals(build_row, cache, last_op.op = "Insert", finds_nulls_)

\* ------------------------------------------------------------------------
\* C28.  ShouldExpandPreaggHashTables returns true exactly when the
\* estimated reduction exceeds the minimum reduction of the table entry with
\* the largest threshold not above the bytes of the hash tables, where the
\* estimate is 1 + (N_expected / n_aggregated) * (r_current - 1) with the
\* exact ratio N_expected / n_aggregated when n_aggregated < N_expected, and
\* r_current = n_aggregated / n_in_hash otherwise; it returns true whenever
\* the tables hold no rows or hold fewer than 256 KiB.
ExactEstimatedReduction(a) ==
    LET n_aggregated == a.input_rows - a.num_rows_returned
        N_expected == a.estimated_input_cardinality - a.num_rows_returned
        r_current == Rat(n_aggregated, a.ht_rows)
    IN IF n_aggregated < N_expected
       THEN RatAdd(Rat(1, 1), RatMul(Rat(N_expected, n_aggregated), RatSub(r_current, Rat(1, 1))))
       ELSE r_current

LargestThresholdNotAbove(ht_mem) == CHOOSE e \in Range(STREAMING_HT_MIN_REDUCTION) : e.min_ht_mem <= ht_mem /\ \A f \in Range(STREAMING_HT_MIN_REDUCTION) : f.min_ht_mem <= ht_mem => f.min_ht_mem <= e.min_ht_mem

ShouldExpandDecidesOnExactRatio ==
    expand_pc = "returned" =>
        /\ should_expand = (IF expand_args.ht_rows = 0 THEN TRUE
                            ELSE RatGreater(ExactEstimatedReduction(expand_args), LargestThresholdNotAbove(expand_args.ht_mem).streaming_ht_min_reduction))
        /\ (expand_args.ht_rows = 0 \/ expand_args.ht_mem < 256 * 1024) => should_expand

\* ------------------------------------------------------------------------
\* C29.  No error status is discarded: when a fallible sub-step of an
\* operator call has failed (Partition::Spill, MoveHashPartitions,
\* SpillPartition, the unpin and switch-buffer operations of a stream), the
\* enclosing Open or GetNext call returns that error instead of going on as
\* if the step had succeeded.
NoErrorStatusDiscarded ==
    sub_step_status # "OK" =>
        \/ agg_pc = "error" /\ agg_status = sub_step_status
        \/ join_pc = "error" /\ join_status = sub_step_status

\* ------------------------------------------------------------------------
\* C30.  The join never spills a partition whose hash table has recorded a
\* match: a partition that becomes spilled in a step had no hash table, or a
\* hash table without matched entries, so no match information is lost by
\* spilling.
SpilledInStep == {i \in (1..Len(join_hash_partitions_)) \cap (1..Len(join_hash_partitions_')) : ~join_hash_partitions_[i].is_spilled /\ join_hash_partitions_'[i].is_spilled}

NoSpillAfterMatchStep == \A i \in SpilledInStep : ~join_hash_partitions_[i].hash_tbl \/ join_hash_partitions_[i].matched = {}

NeverSpillsPartitionWithMatches == [][NoSpillAfterMatchStep]_vars

\* C30 witness: SpillPartition has spilled a second partition while the probe
\* rows of the repartitioned input are processed (one was spilled when the
\* probe began), and a partition whose hash table has matches is resident.
NeverSpillsPartitionWithMatchesWitness ==
    /\ join_pc = "probe"
    /\ state_ = "REPARTITIONING"
    /\ join_status = "OK"
    /\ join_hash_partitions_ # <<>>
    /\ join_hash_partitions_[1].level = 1
    /\ Cardinality({i \in 1..Len(join_hash_partitions_) : join_hash_partitions_[i].is_spilled}) >= 2
    /\ \E i \in 1..Len(join_hash_partitions_) : join_hash_partitions_[i].hash_tbl /\ join_hash_partitions_[i].matched # {}

\* ------------------------------------------------------------------------
\* C31.  The assertions at the top of the join's Partition::Spill hold on
\* every path that reaches it: it never runs while state_ is PROCESSING_PROBE
\* or PROBING_SPILLED_PARTITION, and it runs on a partition that is spilled
\* already only in REPARTITIONING, on any other only while its probe stream
\* is empty.
SpillAssertionsStep ==
    /\ \A i \in SpilledInStep :
          /\ state_ \notin {"PROCESSING_PROBE", "PROBING_SPILLED_PARTITION"}
          /\ join_hash_partitions_[i].probe_rows = <<>>
    /\ (join_pc = "next" /\ join_spilled_partitions_ # <<>> /\ join_pc' # "next" /\ state_' = "REPARTITIONING") =>
          /\ input_partition_' # <<>>
          /\ input_partition_'[1].is_spilled

SpillAssertionsHold == [][SpillAssertionsStep]_vars

\* ------------------------------------------------------------------------
\* C32.  In both operators the levels of the partitions in
\* spilled_partitions_ never increase from front to back, so that the
\* partition taken from the front has the greatest level present, and all
\* the partitions in hash_partitions_ have one level.
LevelsNonIncreasing(parts) == \A i, j \in 1..Len(parts) : i < j => parts[i].level >= parts[j].level

OneLevel(parts) == \A i, j \in 1..Len(parts) : parts[i].level = parts[j].level

SpilledPartitionsDepthFirst ==
    /\ LevelsNonIncreasing(spilled_partitions_)
    /\ LevelsNonIncreasing(join_spilled_partitions_)
    /\ OneLevel(hash_partitions_)
    /\ OneLevel(join_hash_partitions_)

\* C32 witness: the aggregation holds spilled partitions of two levels, the
\* children of a repartitioned partition in front of a partition of level 0.
SpilledPartitionsDepthFirstWitness ==
    /\ Len(spilled_partitions_) >= 2
    /\ spilled_partitions_[1].level = 1
    /\ spilled_partitions_[Len(spilled_partitions_)].level = 0
    /\ agg_pc = "getnext"

\* The same in the join.
JoinSpilledPartitionsDepthFirstReached ==
    /\ Len(join_spilled_partitions_) >= 2
    /\ join_spilled_partitions_[1].level = 1
    /\ join_spilled_partitions_[Len(join_spilled_partitions_)].level = 0

\* ------------------------------------------------------------------------
\* C33.  From the return of CreateHashPartitions (aggregation) or
\* BuildHashTables (join) until the partitions are moved or cleaned up, and
\* across the SpillPartition calls in between that return OK, hash_tbls_[i]
\* is NULL exactly when hash_partitions_[i] has no hash table, and is
\* otherwise that partition's own hash table.
CachesOwnHashTbl(tbls, parts) ==
    \A i \in 1..Fanout :
       /\ tbls[i] = NullHashTbl <=> ~parts[i].hash_tbl
       /\ tbls[i] # NullHashTbl => tbls[i] = i

HashTblsCacheStep ==
    /\ (hash_partitions_ # <<>> /\ hash_partitions_' # <<>>) => CachesOwnHashTbl(hash_tbls_', hash_partitions_')
    /\ (join_pc = "probe" /\ join_hash_partitions_ # <<>> /\ join_hash_partitions_' # <<>>) => CachesOwnHashTbl(join_hash_tbls_', join_hash_partitions_')

AggHashTblsCacheReached ==
    /\ agg_pc = "open"
    /\ \E i, j \in 1..Len(hash_partitions_) :
          /\ IsSpilled(hash_partitions_[i])
          /\ hash_partitions_[i].aggregated_row_stream # <<>>
          /\ hash_partitions_[j].hash_tbl

\* ------------------------------------------------------------------------
\* C34.  SpillPartition returns the "memory limit too low" error only when
\* it has no partition to take, and otherwise spills one and returns OK.  In
\* the join the partitions it can take are the resident ones whose hash
\* table has no matches; in the aggregation the error is also returned when
\* the serialize stream refuses a tuple of the partition being spilled.
SerializeStreamRefused ==
    /\ needs_serialize_
    /\ \E i \in 1..Len(hash_partitions_) :
          /\ AggResident(hash_partitions_[i])
          /\ hash_partitions_[i].aggregated_row_stream # <<>>
          /\ ~hash_partitions_'[i].hash_tbl

SpillPartitionErrorStep ==
    /\ JoinSpillPartitionError => \A j \in 1..Len(join_hash_partitions_) : ~(JoinResident(join_hash_partitions_[j]) /\ WithoutMatches(join_hash_partitions_[j]))
    /\ JoinSpillPartitionOk => \E i \in 1..Len(join_hash_partitions_) : JoinResident(join_hash_partitions_[i]) /\ WithoutMatches(join_hash_partitions_[i]) /\ join_hash_partitions_'[i].is_spilled
    /\ AggSpillPartitionError => (SerializeStreamRefused \/ \A j \in 1..Len(hash_partitions_) : ~AggResident(hash_partitions_[j]))
    /\ AggSpillPartitionOk => \E i \in 1..Len(hash_partitions_) : AggResident(hash_partitions_[i]) /\ ~hash_partitions_'[i].hash_tbl

SpillPartitionErrorOnlyWithoutCandidate == [][SpillPartitionErrorStep]_vars

\* C34 as stated: the error only when no partition of hash_partitions_ is
\* resident and not closed.
SpillPartitionErrorStepAsStated ==
    /\ JoinSpillPartitionError => \A j \in 1..Len(join_hash_partitions_) : ~JoinResident(join_hash_partitions_[j])
    /\ JoinSpillPartitionOk => \E i \in 1..Len(join_hash_partitions_) : JoinResident(join_hash_partitions_[i]) /\ join_hash_partitions_'[i].is_spilled
    /\ AggSpillPartitionError => \A j \in 1..Len(hash_partitions_) : ~AggResident(hash_partitions_[j])
    /\ AggSpillPartitionOk => \E i \in 1..Len(hash_partitions_) : AggResident(hash_partitions_[i]) /\ ~hash_partitions_'[i].hash_tbl

SpillPartitionErrorOnlyWithoutResident == [][SpillPartitionErrorStepAsStated]_vars

\* C34 witness: SpillPartition of the join has returned the error although
\* every partition with a hash table is resident, all of them having matches.
SpillPartitionErrorWitness ==
    /\ join_status = "MEM_LIMIT_TOO_LOW"
    /\ join_pc = "error"
    /\ state_ = "REPARTITIONING"
    /\ \E j \in 1..Len(join_hash_partitions_) : JoinResident(join_hash_partitions_[j])
    /\ \A j \in 1..Len(join_hash_partitions_) : JoinResident(join_hash_partitions_[j]) => join_hash_partitions_[j].hash_tbl /\ join_hash_partitions_[j].matched # {}

\* The aggregation returns the error with no resident partition left.
AggSpillPartitionErrorReached ==
    /\ agg_status = "MEM_LIMIT_TOO_LOW"
    /\ hash_partitions_ # <<>>
    /\ \A j \in 1..Len(hash_partitions_) : ~AggResident(hash_partitions_[j])

\* ------------------------------------------------------------------------
\* C35.  End-of-stream is stable for the aggregator: a GetNext call made
\* after a call that reported eos = true, with no Reset in between, leaves
\* eos true and adds no row to its batch; and the single row of an
\* aggregation without grouping is returned at most once per Open / Reset.
EosStableStep ==
    /\ (eos /\ get_next_calls' = get_next_calls + 1) => (eos' /\ row_batch_num_rows' = 0 /\ num_rows_returned_' = num_rows_returned_)
    /\ singleton_rows_returned' <= 1

EosIsStable == [][EosStableStep]_vars

\* C35 witness: an aggregation without grouping has returned its row, and a
\* later GetNext has reported eos without a row.
EosIsStableWitness ==
    /\ grouping_expr_ctxs_empty
    /\ singleton_rows_returned = 1
    /\ get_next_calls >= 2
    /\ eos
    /\ row_batch_num_rows = 0
    /\ eos_pc = "getnext"

\* With grouping: eos was reported when the partitions were used up, and a
\* later GetNext found both flags set.
GroupingEosReached ==
    /\ ~grouping_expr_ctxs_empty
    /\ limit_ = -1
    /\ num_rows_returned_ >= 1
    /\ partition_eos_ /\ child_eos_
    /\ get_next_calls = MaxGetNextCalls
    /\ eos
    /\ eos_pc = "getnext"

\* ------------------------------------------------------------------------
\* The operator has returned eos or a terminal error.
Terminated == agg_pc \in {"eos", "error"} \/ join_pc \in {"eos", "error"}

\* hash_partitions_ keeps its partitions and one more of them is spilled.
AggSpillsOneMore ==
    /\ Len(hash_partitions_') = Len(hash_partitions_)
    /\ hash_partitions_ # <<>>
    /\ num_spilled_partitions_' # num_spilled_partitions_

JoinSpillsOneMore ==
    /\ Len(join_hash_partitions_') = Len(join_hash_partitions_)
    /\ join_hash_partitions_ # <<>>
    /\ join_num_spilled_partitions_' # join_num_spilled_partitions_

AggResidentIdx(parts) == {i \in 1..Len(parts) : ~parts[i].is_closed /\ parts[i].hash_tbl}
JoinResidentIdx(parts) == {i \in 1..Len(parts) : ~parts[i].is_closed /\ ~parts[i].is_spilled}

\* A spill of the retry loops takes a partition that was resident, and no
\* spilled partition becomes resident again; the partitions queued when a
\* repartitioning ends are one level deeper than the partition read and
\* hold fewer rows than it.
TerminationMeasureStep ==
    /\ AggSpillsOneMore =>
          /\ AggResidentIdx(hash_partitions_') \subseteq AggResidentIdx(hash_partitions_)
          /\ Cardinality(AggResidentIdx(hash_partitions_')) < Cardinality(AggResidentIdx(hash_partitions_))
    /\ JoinSpillsOneMore =>
          /\ JoinResidentIdx(join_hash_partitions_') \subseteq JoinResidentIdx(join_hash_partitions_)
          /\ Cardinality(JoinResidentIdx(join_hash_partitions_')) < Cardinality(JoinResidentIdx(join_hash_partitions_))
    /\ (AggRepartitionEnds /\ agg_pc' = "getnext") =>
          \A q \in AggSpilledChildren :
              /\ NumRows(q) < NumRows(Head(spilled_partitions_))
              /\ q.level = Head(spilled_partitions_).level + 1
              /\ q.level < MaxPartitionDepth
    /\ JoinQueuesChildren =>
          \A q \in JoinSpilledChildren :
              /\ Len(q.build_rows) < SumBuildRows(join_hash_partitions_, 1)
              /\ q.level < MaxPartitionDepth

\* C36.  With finite inputs and a driver that keeps calling, either
\* operator eventually returns eos or a terminal error: a repartitioning
\* that does not fail leaves spilled children one level deeper (below
\* MAX_PARTITION_DEPTH) and with fewer rows than its input, and each spill
\* of a spill-and-retry loop takes a partition that was still resident.
GetNextTerminates == <>Terminated /\ [][TerminationMeasureStep]_vars

\* C36 witness: the aggregation has returned eos after it repartitioned a
\* spilled partition and spilled a child again.
GetNextTerminatesWitness ==
    /\ agg_pc = "eos"
    /\ num_repartitions_ >= 1
    /\ num_spilled_partitions_ >= 2
    /\ Len(agg_output) >= 2

\* The join has returned eos after it repartitioned a spilled partition.
JoinTerminatedAfterRepartitioning ==
    /\ join_pc = "eos"
    /\ join_num_repartitions_ >= 1
    /\ join_num_spilled_partitions_ >= 2

\* ------------------------------------------------------------------------
\* The two rows have the same key values: the same NULLs, the same values of
\* fixed length and strings of the same bytes, wherever the strings lie.
SameKeyValues(a, b, types) ==
    \A i \in 1..NumExprs :
        \/ a[i] = NullPtr /\ b[i] = NullPtr
        \/ /\ a[i] # NullPtr
           /\ b[i] # NullPtr
           /\ IF types[i] = "INT" THEN a[i] = b[i] ELSE StringAt(a[i]) = StringAt(b[i])

\* C37.  Hashing is consistent with equality and deterministic at every
\* level: two rows with the same key values (string bytes, not addresses) and
\* the same NULLs get the same HashCurrentRow value, and so do two rows that
\* Equals with forced NULL equality takes as equal, with and without keys of
\* variable length.
HashConsistentWithEquals ==
    hash_pc = "compared" =>
        /\ equals_result => build_row_hash = probe_row_hash
        /\ SameKeyValues(hash_build_row, hash_probe_row, build_expr_types) => (equals_result /\ build_row_hash = probe_row_hash)

\* C37 witness: at level 1, two rows with a NULL first key and equal strings
\* at different addresses were hashed and compared equal.
HashConsistentWithEqualsWitness ==
    /\ hash_pc = "compared"
    /\ equals_result
    /\ level_ = 1
    /\ build_expr_types[1] = "INT"
    /\ build_expr_types[NumExprs] = "STRING"
    /\ hash_build_row[1] = NullPtr
    /\ hash_build_row[NumExprs] # NullPtr
    /\ hash_probe_row[NumExprs] # NullPtr
    /\ hash_build_row[NumExprs] # hash_probe_row[NumExprs]
    /\ StringAt(hash_build_row[NumExprs]) # <<>>

\* Rows of fixed length only, compared equal at level 0.
FixedLengthRowsComparedEqual ==
    /\ hash_pc = "compared"
    /\ equals_result
    /\ level_ = 0
    /\ \A i \in 1..NumExprs : build_expr_types[i] = "INT"
    /\ hash_build_row[NumExprs] = NullPtr

\* ------------------------------------------------------------------------
\* One step of a table's life, seen from the block manager: after Init the
\* bucket array accounts for num_buckets_ buckets (none after a failed Init);
\* a step of an initialised table changes the consumption only by the growth
\* of num_buckets_, so a failed resize consumes nothing and a successful one
\* consumes the new array and releases the old; the first Close returns the
\* consumption to zero.
BucketMemoryStep ==
    /\ ht_pc' \in {"ready", "failed"} => block_mgr_mem' = num_buckets_'
    /\ ht_pc' = "failed" => block_mgr_mem' = 0
    /\ (ht_pc = "ready" /\ ht_pc' = "ready") => block_mgr_mem' - block_mgr_mem = num_buckets_' - num_buckets_
    /\ (ht_pc = "ready" /\ ht_pc' = "ready" /\ last_op'.op = "CheckAndResize" /\ ~last_op'.ok) => block_mgr_mem' = block_mgr_mem
    /\ (ht_closes = 0 /\ ht_closes' = 1) => block_mgr_mem' = 0

\* C38.  The memory accounting of the bucket array is balanced: from Init on
\* the bytes consumed are num_buckets * sizeof(Bucket) (0 after a failed
\* Init), a failed resize consumes nothing, a successful resize consumes the
\* new size and releases the old, and a single Close after any sequence of
\* Init / CheckAndResize returns the consumption to zero.
BucketMemoryBalanced == [][BucketMemoryStep]_vars

\* C38 witness: a table that holds rows and went through a resize attempt
\* was closed once, and nothing is consumed.
BucketMemoryBalancedWitness ==
    /\ ht_pc = "closed"
    /\ ht_closes = 1
    /\ num_resizes_ >= 1
    /\ num_filled_buckets_ >= 1
    /\ num_buckets_ = 2 ^ MaxBucketsLog
    /\ block_mgr_mem = 0

\* A table whose Init was refused has been closed.
ClosedAfterFailedInit ==
    /\ ht_pc = "closed"
    /\ ht_closes = 1
    /\ num_buckets_ = 0
    /\ buckets_ = <<>>
    /\ block_mgr_mem = 0

\* A resize was refused by the block manager while the table held rows.
ResizeRefusedReached ==
    /\ ht_pc = "ready"
    /\ last_op.op = "CheckAndResize"
    /\ ~last_op.ok
    /\ num_resizes_ >= 1
    /\ block_mgr_mem = num_buckets_

\* ------------------------------------------------------------------------
\* The step in which PrepareNextPartition returns OK after it repartitioned
\* input_partition_ into hash_partitions_ of the next level.
JoinRepartitioned == join_pc = "reserve" /\ state_ = "REPARTITIONING" /\ join_pc' = "probe"

\* The partitions of hash_partitions_ spilled for the first time in a step.
JoinNewlySpilled ==
    IF join_hash_partitions_ # <<>> /\ Len(join_hash_partitions_') = Len(join_hash_partitions_)
    THEN {i \in 1..Len(join_hash_partitions_) : ~join_hash_partitions_[i].is_spilled /\ join_hash_partitions_'[i].is_spilled}
    ELSE {}

\* SpilledPartitions grows by one for each partition spilled for the first
\* time, and NumRepartitions by one for each repartitioning that is done.
SpilledPartitionsCounterStep == join_num_spilled_partitions_' = join_num_spilled_partitions_ + Cardinality(JoinNewlySpilled)

NumRepartitionsCounterStep == join_num_repartitions_' = join_num_repartitions_ + (IF JoinRepartitioned THEN 1 ELSE 0)

\* C39.  The join's counters match the events they name in every
\* execution: NumRepartitions counts the spilled partitions that were
\* repartitioned into a new level, not those whose hash table was rebuilt in
\* memory, and SpilledPartitions counts each partition spilled once, a
\* partition spilled again while it is repartitioned not being counted twice.
JoinCountersMatchEvents == [][SpilledPartitionsCounterStep /\ NumRepartitionsCounterStep]_vars

\* The SpilledPartitions half, and NumRepartitions on every step but the one
\* in which PrepareNextPartition rebuilds the hash table in memory.
JoinCountersMatchButForRebuild ==
    [][/\ SpilledPartitionsCounterStep
       /\ (join_pc = "next" /\ join_pc' = "probe") \/ NumRepartitionsCounterStep]_vars

\* A spilled partition was repartitioned and counted, and it was not counted
\* as spilled again.
JoinRepartitionCounted ==
    /\ join_num_repartitions_ = 1
    /\ state_ = "REPARTITIONING"
    /\ join_pc = "probe"
    /\ join_num_spilled_partitions_ >= 1

====
